---- MODULE Spec2Model ----
(***************************************************************************)
(* Verification model of the cmssy-cli dev toolchain: the schema-default / *)
(* preview merge (src/commands/dev.ts), the dev server's preview and       *)
(* config handlers, the generated Next.js API routes                       *)
(* (src/utils/dev-generator.ts) and the two editing clients                *)
(* (src/dev-ui-react/App.tsx and the generated home page).                 *)
(***************************************************************************)
EXTENDS Integers, Sequences, FiniteSets, TLC

(***************************************************************************)
(* JSON values.  An object is a function whose DOMAIN is its key set; a    *)
(* key that is not in the DOMAIN reads as `undefined`.                     *)
(***************************************************************************)
Null == [t |-> "null"]

Str(s) == [t |-> "str", s |-> s]

Arr(items) == [t |-> "arr", items |-> items]

EmptyObject == [k \in {} |-> Null]

IsArray(v) == v.t = "arr"

\* Object.keys(o).length === 0
IsEmptyObject(o) == DOMAIN o = {}

\* Bound: longest repeater sequence in preview content or in a default.
MaxItems == 1

\* Keys a schema may declare, and keys preview content may hold.
SchemaKeys == {"k1", "k2"}

PreviewKeys == {"k1", "x"}

NestedKeys == {"n1", "n2"}

FieldTypes == {"singleLine", "repeater", "media"}

\* A nested (repeater item) field: only its defaultValue matters to the merge.
NestedField(hasDefault, dv) == [hasDefault |-> hasDefault, defaultValue |-> dv]

\* A field definition: type, optional defaultValue, optional nested schema.
Field(type, hasDefault, dv, hasSchema, sch) ==
    [type |-> type, hasDefault |-> hasDefault, defaultValue |-> dv,
     hasSchema |-> hasSchema, schema |-> sch]

(***************************************************************************)
(* mergeDefaultsWithPreview, src/commands/dev.ts:44-77.                    *)
(***************************************************************************)
\* MergeItem with a loose equality check (mergedItem[nestedKey] == undefined),
\* under which an explicit null is defaulted as well.
MergeItemLooseEquality(nested, item) ==
    LET filled == {nk \in DOMAIN nested :
                      (nk \notin DOMAIN item \/ item[nk] = Null) /\ nested[nk].hasDefault}
    IN [nk \in (DOMAIN item) \cup filled |->
            IF nk \in filled THEN nested[nk].defaultValue ELSE item[nk]]

\* MergeItem copying only the item's non-null values: a nested key holding
\* null is dropped by this pass and reads undefined in the next one.
MergeItemDroppingNull(nested, item) ==
    LET kept == {nk \in DOMAIN item : item[nk] # Null}
        filled == {nk \in DOMAIN nested : nk \notin DOMAIN item /\ nested[nk].hasDefault}
    IN [nk \in kept \cup filled |->
            IF nk \in kept THEN item[nk] ELSE nested[nk].defaultValue]

\* dev.ts:64-71: const mergedItem = {...item}; every nested key that reads
\* undefined in the item and has a defaultValue gets the default.
MergeItem(nested, item) ==
    LET filled == {nk \in DOMAIN nested : nk \notin DOMAIN item /\ nested[nk].hasDefault}
    IN [nk \in (DOMAIN item) \cup filled |->
            IF nk \in DOMAIN item THEN item[nk] ELSE nested[nk].defaultValue]

\* dev.ts:52-59: whether merged[key] is set after the top-level default step.
TopHas(field, P, key) ==
    IF key \in DOMAIN P /\ P[key] # Null THEN TRUE
    ELSE IF field.hasDefault THEN TRUE
    ELSE IF field.type = "repeater" THEN TRUE
    ELSE key \in DOMAIN P

\* The top-level default step testing for undefined only: a null preview
\* value is kept instead of being replaced by the default.
TopValueUndefinedOnly(field, P, key) ==
    IF key \in DOMAIN P THEN P[key]
    ELSE IF field.hasDefault THEN field.defaultValue
    ELSE Arr(<<>>)

\* dev.ts:52-59: the value of merged[key] after the top-level default step.
TopValue(field, P, key) ==
    IF key \in DOMAIN P /\ P[key] # Null THEN P[key]
    ELSE IF field.hasDefault THEN field.defaultValue
    ELSE IF field.type = "repeater" THEN Arr(<<>>)
    ELSE P[key]

\* dev.ts:62-73: repeaters with a nested schema map every item of a sequence.
FieldValue(field, P, key) ==
    LET v == TopValue(field, P, key)
    IN IF field.type = "repeater" /\ field.hasSchema /\ IsArray(v)
       THEN Arr([i \in 1..Len(v.items) |-> MergeItem(field.schema, v.items[i])])
       ELSE v

\* The merge without its default-filling loop: the shallow copy alone.
mergeWithoutDefaults(schema, P) == P

\* The merge with the precedence reversed: a field's defaultValue wins over
\* the preview content's value.
mergeDefaultsWin(schema, P) ==
    LET keys == (DOMAIN P) \cup {k \in DOMAIN schema : TopHas(schema[k], P, k)}
    IN [k \in keys |->
          IF k \in DOMAIN schema
          THEN IF schema[k].hasDefault THEN schema[k].defaultValue
               ELSE FieldValue(schema[k], P, k)
          ELSE P[k]]

\* The merge built from the schema's keys only: undeclared preview keys are lost.
mergeSchemaKeysOnly(schema, P) ==
    LET keys == {k \in DOMAIN schema : TopHas(schema[k], P, k)}
    IN [k \in keys |-> FieldValue(schema[k], P, k)]

mergeDefaultsWithPreview(schema, P) ==
    LET keys == (DOMAIN P) \cup {k \in DOMAIN schema : TopHas(schema[k], P, k)}
    IN [k \in keys |-> IF k \in DOMAIN schema THEN FieldValue(schema[k], P, k) ELSE P[k]]

(***************************************************************************)
(* Bounded input domains of the merge.                                     *)
(***************************************************************************)
Objects(keys, values) == UNION {[d -> values] : d \in SUBSET keys}

\* Repeater items held by preview content: each nested key absent, null or a string.
Items == Objects(NestedKeys, {Null, Str("v")})

ItemSeqs(items) == UNION {[1..n -> items] : n \in 0..MaxItems}

Arrays == {Arr(s) : s \in ItemSeqs(Items)}

\* Items of a repeater's defaultValue: the empty item and an item holding n1 only.
DefaultItems == {EmptyObject, [nk \in {"n1"} |-> Str("dv")]}

DefaultArrays == {Arr(s) : s \in ItemSeqs(DefaultItems)}

NestedFields == {NestedField(FALSE, Null), NestedField(TRUE, Str("nd"))}

NestedSchemas == Objects(NestedKeys, NestedFields)

ScalarFields ==
    {Field(ty, FALSE, Null, FALSE, EmptyObject) : ty \in {"singleLine", "media"}}
    \cup {Field(ty, TRUE, Str("d"), FALSE, EmptyObject) : ty \in {"singleLine", "media"}}
    \cup {Field("singleLine", TRUE, Null, FALSE, EmptyObject)}

RepeaterFields ==
    {Field("repeater", FALSE, Null, FALSE, EmptyObject)}
    \cup {Field("repeater", FALSE, Null, TRUE, ns) : ns \in NestedSchemas}
    \cup {Field("repeater", TRUE, a, FALSE, EmptyObject) : a \in DefaultArrays}
    \cup {Field("repeater", TRUE, a, TRUE, ns) : a \in DefaultArrays, ns \in NestedSchemas}

Fields == ScalarFields \cup RepeaterFields

\* Fields the second schema key may take (the first takes any of Fields).
SecondFields ==
    {Field("singleLine", FALSE, Null, FALSE, EmptyObject),
     Field("singleLine", TRUE, Str("d"), FALSE, EmptyObject),
     Field("repeater", FALSE, Null, FALSE, EmptyObject)}

Schemas ==
    {EmptyObject}
    \cup {[k \in {"k1"} |-> f] : f \in Fields}
    \cup {[k \in {"k2"} |-> f] : f \in SecondFields}
    \cup {[k \in SchemaKeys |-> IF k = "k1" THEN f ELSE g] : f \in Fields, g \in SecondFields}

\* Preview content: k1 holds any value, x (never declared) a scalar.
Previews ==
    {EmptyObject}
    \cup {[k \in {"k1"} |-> v] : v \in {Null, Str("a")} \cup Arrays}
    \cup {[k \in {"x"} |-> v] : v \in {Null, Str("a")}}
    \cup {[k \in PreviewKeys |-> IF k = "k1" THEN v ELSE w] :
            v \in {Null, Str("a")} \cup Arrays, w \in {Null, Str("a")}}

(***************************************************************************)
(* Save reconciliation: const dataToSave = {...configDataRef.current,      *)
(* ...previewData}, App.tsx:89 and the generated home page                 *)
(* (dev-generator.ts:315); mergeForSave in previewData.test.ts:9-14.       *)
(***************************************************************************)
\* The reconciliation with the baseline left out: the partial save.
mergeForSaveWorkingOnly(configDataRef, working) == working

mergeForSave(configDataRef, working) ==
    [k \in (DOMAIN configDataRef) \cup (DOMAIN working) |->
        IF k \in DOMAIN working THEN working[k] ELSE configDataRef[k]]

\* Content objects of the save reconciliation check.
SaveObjects == Objects({"k1", "k2"}, {Str("a"), Str("b")})

(***************************************************************************)
(* The project on disk and the dev server's resource list.                 *)
(***************************************************************************)
\* Names of the resource directories (all of them blocks).
Resources == {"A", "B"}

\* Bound: config fetches in flight at once.
MaxFetches == 2

\* Bound: preview writes in flight at once.
MaxWrites == 2

FetchSlots == 1..MaxFetches

WriteSlots == 1..MaxWrites

\* The schema each resource's block.config.ts declares: A declares field k1
\* with a default, B declares it without.
ConfigFile(r) ==
    IF r = "A"
    THEN [k \in {"k1"} |-> Field("singleLine", TRUE, Str("d"), FALSE, EmptyObject)]
    ELSE [k \in {"k1"} |-> Field("singleLine", FALSE, Null, FALSE, EmptyObject)]

\* A preview.json file: absent, holding a JSON object, or holding text that
\* is not JSON.
NoFile == [exists |-> FALSE, parses |-> TRUE, data |-> EmptyObject]

File(obj) == [exists |-> TRUE, parses |-> TRUE, data |-> obj]

CorruptFile == [exists |-> TRUE, parses |-> FALSE, data |-> EmptyObject]

\* fs.readJsonSync / JSON.parse of a file that exists but is not JSON throws.
ReadThrows(doc) == doc.exists /\ ~doc.parses

\* preview.json documents a project may start with.
InitialDocs(r) ==
    IF r = "A" THEN {NoFile, File([k \in {"k1", "x"} |-> Str("a")]), CorruptFile}
    ELSE {NoFile, File([k \in {"x"} |-> Str("a")])}

\* fs.existsSync(previewPath) ? fs.readJsonSync(previewPath) : {}
\* (dev.ts:250-255, 334-339; dev-generator.ts:759-762, 828-831).  JSON text
\* parses back to the object that was written: the values of this model are
\* JSON values, which stringify/parse reproduces.
ReadPreviewFile(doc) == IF doc.exists THEN doc.data ELSE EmptyObject

\* The preview content a request handler works with, taken from the resource's
\* in-memory previewData when it is set instead of from the file.
LoadPreviewCached(cached, doc) ==
    IF cached.set THEN cached.data ELSE ReadPreviewFile(doc)

\* dev.ts:249-255 and 333-339: resource.previewData is re-read from the file
\* on every request, whatever it held before.
LoadPreviewFresh(cached, doc) == ReadPreviewFile(doc)

\* A write that patches the document in place, keeping keys the body lacks.
PatchedDocument(doc, body) == File(mergeForSave(ReadPreviewFile(doc), body))

\* dev.ts:358 fs.writeJsonSync(previewPath, newPreviewData) and
\* dev-generator.ts:849: the whole file is replaced by the request body.
WrittenDocument(doc, body) == File(body)

\* Request bodies another HTTP client may POST to /api/preview/:blockName.
PostBodies ==
    {EmptyObject, [k \in {"k1"} |-> Str("e")], [k \in {"k2", "x"} |-> Str("e")]}

FreeSlot == [stage |-> "free"]

UnsetPreview == [set |-> FALSE, data |-> EmptyObject]

\* answer: what the last GET of the raw preview was answered with: "json",
\* "not-found" (a 404 error object), or "error-page" when the handler threw
\* and the framework answered in its place.
NoRead == [valid |-> FALSE, data |-> EmptyObject, answer |-> "none"]

RawRead(data) == [valid |-> TRUE, data |-> data, answer |-> "json"]

FailedRead == [valid |-> FALSE, data |-> EmptyObject, answer |-> "error-page"]

NotFoundRead == [valid |-> FALSE, data |-> EmptyObject, answer |-> "not-found"]

NoWrite == [valid |-> FALSE, body |-> EmptyObject]

(***************************************************************************)
(* The resource directories' other files, the scanner of                   *)
(* src/utils/type-generator.ts and the metadata cache of                    *)
(* src/utils/blocks-meta-cache.ts.                                          *)
(***************************************************************************)
\* block.config.ts of a resource directory, by what resolving it yields: a
\* configuration whose schema validates; one whose schema fails validation;
\* no file; a file whose evaluation throws.
ConfigStates == {"valid", "invalid", "missing", "broken"}

\* loadBlockConfig(resourcePath): the resolved configuration, null when the
\* directory has no configuration, or a thrown error (caught at dev.ts:240
\* and dev.ts:745).
loadBlockConfig(file) ==
    CASE file \in {"valid", "invalid"} -> "config"
      [] file = "missing" -> "null"
      [] OTHER -> "throws"

\* validateSchema(schema, path).valid
validateSchema(file) == file = "valid"

\* package.json of a resource directory: the directory does not exist; it
\* has no package.json; one with name and version; one with name, version
\* and the legacy cmssy key.
PackageStates == {"nodir", "missing", "valid", "legacy"}

\* getPackageJson(path): whether it returns an object
getPackageJson(pkg) == pkg \in {"valid", "legacy"}

\* pkg && pkg.cmssy
HasLegacyFormat(pkg) == pkg = "legacy"

\* readdirSync lists the directories in name order.
DirNames == <<"A", "B">>

\* name.toLowerCase()
ToLowerCase(n) ==
    CASE n = "A" -> "a"
      [] n = "B" -> "b"
      [] OTHER -> n

\* type-generator.ts:238-249: the subdirectories, filtered by names when
\* names is given and not empty, case-insensitively.
ItemDirs(names, pkgs) ==
    LET lowerNames == {ToLowerCase(m) : m \in names}
        Kept(n) == /\ pkgs[n] # "nodir"
                   /\ names # {} => ToLowerCase(n) \in lowerNames
    IN SelectSeq(DirNames, Kept)

\* The metadata an entry carries, by origin: "dir" is the display name made
\* from the directory name, "valid" / "invalid" what the configuration file
\* in that state declares.
ScannedResource(n, o, result, file, doc) ==
    [name |-> n,
     loaded |-> result = "config",
     meta |-> IF result = "config" THEN file ELSE "dir",
     preview |-> IF o.loadPreview /\ ~IsEmptyObject(ReadPreviewFile(doc))
                 THEN [set |-> TRUE, data |-> ReadPreviewFile(doc)]
                 ELSE [set |-> FALSE, data |-> EmptyObject]]

\* One iteration of scanDirectory's loop, type-generator.ts:251-354: the
\* item is pushed, skipped (continue) or an error is thrown; warned tells
\* whether console.warn was called for it.
ScanItem(o, n, file, pkg, doc) ==
    LET result == IF o.loadConfig THEN loadBlockConfig(file) ELSE "unloaded"
        legacy == result = "null" /\ getPackageJson(pkg) /\ HasLegacyFormat(pkg)
        invalid == result = "config" /\ o.validateSchema /\ ~validateSchema(file)
        entry == ScannedResource(n, o, result, file, doc)
    IN IF result = "throws" THEN [outcome |-> "throw", warned |-> FALSE, entry |-> entry]
       ELSE IF legacy /\ o.strict THEN [outcome |-> "throw", warned |-> FALSE, entry |-> entry]
       ELSE IF result = "null" /\ o.strict
            THEN [outcome |-> "skip", warned |-> TRUE, entry |-> entry]
       ELSE IF invalid /\ o.strict THEN [outcome |-> "throw", warned |-> FALSE, entry |-> entry]
       ELSE IF o.requirePackageJson /\ ~getPackageJson(pkg) /\ o.strict
            THEN [outcome |-> "throw", warned |-> legacy \/ invalid, entry |-> entry]
       ELSE IF o.loadPreview /\ ReadThrows(doc)
            THEN [outcome |-> "throw", warned |-> legacy \/ invalid, entry |-> entry]
       ELSE [outcome |-> "include", warned |-> legacy \/ invalid, entry |-> entry]

RECURSIVE scanDirectory(_, _, _, _, _, _, _)
\* scanDirectory's loop from item i on; acc is what the earlier items left.
scanDirectory(o, items, i, acc, files, pkgs, docs) ==
    IF i > Len(items) THEN acc
    ELSE LET n == items[i]
             it == ScanItem(o, n, files[n], pkgs[n], docs[n])
             warned == IF it.warned THEN acc.warned \cup {n} ELSE acc.warned
         IN IF it.outcome = "throw"
            THEN [thrown |-> TRUE, by |-> n, list |-> acc.list, warned |-> warned]
            ELSE scanDirectory(o, items, i + 1,
                     [thrown |-> FALSE, by |-> "none",
                      list |-> IF it.outcome = "include"
                               THEN Append(acc.list, it.entry) ELSE acc.list,
                      warned |-> warned],
                     files, pkgs, docs)

NoScan == [thrown |-> FALSE, by |-> "none", list |-> <<>>, warned |-> {}]

\* scanResources(options), type-generator.ts:165-204, over a project whose
\* resources are all blocks.
scanResources(o, files, pkgs, docs) ==
    scanDirectory(o, ItemDirs(o.names, pkgs), 1, NoScan, files, pkgs, docs)

\* devCommand's startup scan, dev.ts:94-100
BootScanOptions ==
    [strict |-> FALSE, loadConfig |-> FALSE, validateSchema |-> FALSE,
     loadPreview |-> FALSE, requirePackageJson |-> FALSE, names |-> {}]

\* the watcher's scan for a new resource, dev.ts:769-775
WatcherScanOptions ==
    [strict |-> FALSE, loadConfig |-> TRUE, validateSchema |-> TRUE,
     loadPreview |-> TRUE, requirePackageJson |-> TRUE, names |-> {}]

\* Bound: watcher callbacks in flight at once.
MaxWatch == 2

WatchSlots == 1..MaxWatch

\* the entry of name n in a scanned list, or none
FindScanned(list, n) == {list[k] : k \in {j \in DOMAIN list : list[j].name = n}}

\* .cmssy/blocks-meta.json: no file, a file that is not JSON, or a cache;
\* blocks gives each name's entry by the origin of its metadata.
NoBlocks == [r \in {"A", "B"} |-> "absent"]

NoCacheFile == [state |-> "missing", blocks |-> NoBlocks]

\* a file whose text does not parse; blocks is what the text still spells
CorruptCacheFile(blocks) == [state |-> "corrupt", blocks |-> blocks]

\* loadMetaCache variant that trusts the file's content whatever its state
loadMetaCacheUnchecked(file) == file.blocks

\* loadMetaCache, blocks-meta-cache.ts:26-38: the parsed file, or an empty
\* cache when the file is missing or does not parse.
loadMetaCache(file) == IF file.state = "valid" THEN file.blocks ELSE NoBlocks

\* saveMetaCache, blocks-meta-cache.ts:40-44
saveMetaCache(blocks) == [state |-> "valid", blocks |-> blocks]

\* updateBlockInCache variant that saves the one entry alone
updateBlockInCacheAlone(file, name, m) == saveMetaCache([NoBlocks EXCEPT ![name] = m])

\* updateBlockInCache, blocks-meta-cache.ts:46-66: load, set the entry, save.
updateBlockInCache(file, name, m) ==
    saveMetaCache([loadMetaCache(file) EXCEPT ![name] = m])

\* removeBlockFromCache variant that saves the loaded cache as it is
removeBlockFromCacheKept(file, name) == saveMetaCache(loadMetaCache(file))

\* removeBlockFromCache, blocks-meta-cache.ts:68-72: load, delete, save.
removeBlockFromCache(file, name) ==
    saveMetaCache([loadMetaCache(file) EXCEPT ![name] = "absent"])

\* dev.ts:109-121: the metadata the list entries have after startup; cached
\* metadata replaces the scan's, which is made from the directory name
BootMeta(file) ==
    [r \in {"A", "B"} |-> IF loadMetaCache(file)[r] # "absent"
                          THEN loadMetaCache(file)[r] ELSE "dir"]

\* The tags key of a configuration, by origin.  The key is optional
\* (block-config.ts:236): of the two configurations of the model the one
\* whose schema validates defines it, the other leaves it out.
ConfigTags(file) == IF file = "valid" THEN "valid" ELSE "none"

NoCachedTags == [r \in {"A", "B"} |-> "none"]

\* dev.ts:115-123: cachedTags of every listed name the cache has an entry
\* for; updateBlockInCache had stored config?.tags (blocks-meta-cache.ts:58).
BootTags(file) ==
    [r \in {"A", "B"} |-> IF loadMetaCache(file)[r] # "absent"
                          THEN ConfigTags(loadMetaCache(file)[r]) ELSE "none"]

(***************************************************************************)
(* The preview pages of the generated Next.js app,                         *)
(* src/utils/dev-generator.ts:13-58 and 983-1157.                          *)
(***************************************************************************)
ResourceTypes == {"block", "template"}

\* src/ of a block directory: no index file, index.tsx, or index.ts only
BlockSources == {"none", "tsx", "ts"}

\* a template directory: src/index.tsx or not; and its pages, from
\* pages.json, from block.config.ts (pages or layoutPositions), or none
TemplateSources == [src : {"none", "tsx"}, pages : {"json", "config", "none"}]

NoSources ==
    [blocks |-> [n \in {"A", "B"} |-> "none"],
     templates |-> [n \in {"A", "B"} |-> [src |-> "none", pages |-> "none"]]]

\* a generated file app/preview/<name>/page.tsx (route "page") or
\* app/preview/<name>/[[...slug]]/page.tsx (route "slug")
PageFile(name, route) == [name |-> name, route |-> route]

\* generateBlockPreviewPage, dev-generator.ts:997-1062
generateBlockPreviewPage(files, resource) ==
    IF files.blocks[resource.name] \in {"tsx", "ts"}
    THEN {PageFile(resource.name, "page")}
    ELSE {}

\* generateTemplatePreviewPage, dev-generator.ts:1064-1124
generateTemplatePreviewPage(files, resource) ==
    IF files.templates[resource.name].pages # "none"
    THEN {PageFile(resource.name, "slug")}
    ELSE {}

\* generatePreviewPages, dev-generator.ts:983-995: the files written into an
\* emptied app/preview
generatePreviewPages(files, list) ==
    UNION {IF list[i].type = "template"
           THEN generateTemplatePreviewPage(files, list[i])
           ELSE generateBlockPreviewPage(files, list[i]) : i \in 1..Len(list)}

(***************************************************************************)
(* Resources of both kinds: blocks/<name> and templates/<name>.            *)
(***************************************************************************)
KindNames == {"X", "Y"}

\* the order scanResources visits the directories in: blocks, then
\* templates (type-generator.ts:181-204)
KindOrder == <<<<"block", "X">>, <<"block", "Y">>, <<"template", "X">>, <<"template", "Y">>>>

\* an entry of the list: its kind and name, whether its configuration is
\* loaded, and resource.previewData by the origin of its content
KindEntry(p, config, preview) ==
    [type |-> p[1], name |-> p[2], config |-> config, preview |-> preview]

\* scanResources over both directories: one entry per resource directory
\* with a package.json; the watcher's scan loads configuration and preview
\* content, the startup's does not.
ScanKinds(dirs, docs, load) ==
    LET found == SelectSeq(KindOrder, LAMBDA p : dirs[p])
    IN [k \in 1..Len(found) |->
          KindEntry(found[k], load, IF load THEN docs[found[k]] ELSE "unset")]

\* the listing GET /api/blocks returns (dev.ts:190-203) shows an entry of
\* that kind and name
ListedAs(list, type, name) ==
    \E k \in DOMAIN list : list[k].name = name /\ list[k].type = type

\* resources.find((r) => r.name === name), dev.ts:208, 327, 348, 709, 766:
\* the index of the first entry of that name, of whatever kind; 0 for none
FindByName(list, name) ==
    IF \E k \in DOMAIN list : list[k].name = name
    THEN CHOOSE k \in DOMAIN list :
            /\ list[k].name = name
            /\ \A j \in DOMAIN list : list[j].name = name => k <= j
    ELSE 0

NoCall == [op |-> "none", name |-> "none", meta |-> "absent"]

NoCacheResult == [done |-> FALSE, blocks |-> NoBlocks, file |-> NoCacheFile,
                  meta |-> [r \in {"A", "B"} |-> "dir"]]

VARIABLES
    pMode,      \* "merge" | "save": which pure function this behaviour applies
    pSchema,    \* merge input: the schema
    pPreview,   \* merge input: the preview content
    pBaseline,  \* save input: configDataRef.current
    pWorking,   \* save input: previewData
    pResult,    \* the function's result once applied
    pDone,      \* whether the function has been applied
    server,     \* "dev" (Express handlers of dev.ts) | "next" (generated routes)
    disk,       \* preview.json of each resource
    blockConfig,\* resource.blockConfig of each entry of the resource list
    memPreview, \* resource.previewData of each entry of the resource list
    cfgReq,     \* config fetches: request sent / handler awaiting / response
    writeReq,   \* preview writes: request sent / response
    rawRead,    \* the last raw preview read of each resource, until its next write
    lastWrite,  \* the body of the last successful preview write of each resource
    client,     \* "app" (dev-ui-react/App.tsx) | "home" (generated home page)
    selected,   \* selectedBlock / selected: the chosen list entry and its schema
    previewData,\* the working editing state
    isDirty,    \* the dirty flag
    configDataRef, \* configDataRef.current: the baseline snapshot
    refFrom,    \* the resource whose config response configDataRef.current came from
    config,     \* useBlockConfig's config state (App.tsx only)
    configLoading, \* the loading flag of the config fetch
    timer,      \* the pending debounced save and the values its closure holds
    curWrite,   \* write slot governed by the live save effect's AbortController, or 0
    renderPending, \* state updates queued by a fetch callback or an effect, not yet rendered
    timers,     \* SpecDebounce: ids of the timers setTimeout has pending
    timerHandle,\* SpecDebounce: the id the client would clear (timeoutId / t / window.saveTimeout), or 0
    nextTimerId,\* SpecDebounce: the id the next setTimeout returns
    cfgFile,    \* block.config.ts of each resource directory, by what resolving it yields
    pkgFile,    \* package.json of each resource directory
    resources,  \* the dev server's in-memory resource list: the entries' names, in order
    meta,       \* displayName/description/category of each name's first list entry, by origin
    metaCache,  \* .cmssy/blocks-meta.json
    watch,      \* watcher callbacks: event delivered / awaiting a load or a scan
    scanOptions,\* SpecScan: the ScanOptions of the call
    scanResult, \* SpecScan: what scanResources returned or that it threw
    cacheCall,  \* SpecCache: the cache function called and its arguments
    cacheResult,\* SpecCache: what the call returned and the file it left
    cacheLog,   \* SpecCacheLog: the update and remove calls made so far, in order
    cachedTags, \* the cachedTags property the startup stored on each name's list entry
    genFiles,   \* SpecGen: the source files of the project's resource directories
    genList,    \* SpecGen: the resource list of the last generator call
    genCall,    \* SpecGen: the generator function called last
    genPages,   \* SpecGen: the page files under .cmssy/dev/app/preview
    kDirs,      \* SpecKinds: the resource directories (kind, name) that exist
    kDocs,      \* SpecKinds: preview.json of each resource directory
    kList       \* SpecKinds: devCommand's resources list, entries with their kind

pvars == <<pMode, pSchema, pPreview, pBaseline, pWorking, pResult, pDone>>

svars == <<server, disk, blockConfig, memPreview, cfgReq, writeReq, rawRead, lastWrite>>

\* what the calls of SpecScan and SpecCache take and return
fvars == <<scanOptions, scanResult, cacheCall, cacheResult, cacheLog>>
gvars == <<genFiles, genList, genCall, genPages>>
kvars == <<kDirs, kDocs, kList>>
bvars == <<fvars, cachedTags, gvars, kvars>>

wvars == <<cfgFile, pkgFile, resources, meta, metaCache, watch, bvars>>

dvars == <<timers, timerHandle, nextTimerId>>

cvars == <<client, selected, previewData, isDirty, configDataRef, refFrom, config,
           configLoading, timer, curWrite, renderPending, dvars>>

vars == <<pvars, svars, wvars, cvars>>

NoSelection == [name |-> "none", hasSchema |-> FALSE, schema |-> EmptyObject]

NoConfig == [set |-> FALSE, name |-> "none", schema |-> EmptyObject, previewData |-> EmptyObject]

NoTimer == [pending |-> FALSE, name |-> "none", previewData |-> EmptyObject]

\* The editing client right after mount: nothing selected, empty working
\* state and baseline, not dirty (App.tsx:11-16, dev-generator.ts:251-258).
ClientInit(c) ==
    /\ client = c
    /\ selected = NoSelection
    /\ previewData = EmptyObject
    /\ isDirty = FALSE
    /\ configDataRef = EmptyObject
    /\ refFrom = "none"
    /\ config = NoConfig
    /\ configLoading = FALSE
    /\ timer = NoTimer
    /\ curWrite = 0
    /\ renderPending = FALSE
    /\ timers = {}
    /\ timerHandle = 0
    /\ nextTimerId = 1

\* The variables of SpecKinds outside it.
KindIdle ==
    /\ kDirs = [p \in ResourceTypes \X KindNames |-> FALSE]
    /\ kDocs = [p \in ResourceTypes \X KindNames |-> "none"]
    /\ kList = <<>>

\* The generator's variables outside SpecGen.
GenIdle ==
    /\ genFiles = NoSources
    /\ genList = <<>>
    /\ genCall = "none"
    /\ genPages = {}

\* The pure-function variables outside SpecMerge.
PureIdle ==
    /\ pMode = "none"
    /\ pSchema = EmptyObject
    /\ pPreview = EmptyObject
    /\ pBaseline = EmptyObject
    /\ pWorking = EmptyObject
    /\ pResult = EmptyObject
    /\ pDone = FALSE

\* A project of two block directories with package.json and no metadata
\* cache, after devCommand's startup (dev.ts:94-125): both are listed, with
\* the metadata the scan gives them; the watcher is idle.
ProjectScanned ==
    /\ pkgFile = [r \in Resources |-> "valid"]
    /\ resources = DirNames
    /\ meta = [r \in Resources |-> "dir"]
    /\ metaCache = NoCacheFile
    /\ watch = [j \in WatchSlots |-> FreeSlot]
    /\ scanOptions = BootScanOptions
    /\ scanResult = NoScan
    /\ cacheCall = NoCall
    /\ cacheResult = NoCacheResult
    /\ cacheLog = <<>>
    /\ cachedTags = NoCachedTags
    /\ GenIdle
    /\ KindIdle

\* The server after devCommand's startup scan (loadConfig: false,
\* loadPreview: false, dev.ts:94-100): no configuration and no preview
\* content in memory; the generated routes keep no state at all.
ServerInit ==
    /\ server \in {"dev", "next"}
    /\ disk \in [Resources -> UNION {InitialDocs(r) : r \in Resources}]
    /\ \A r \in Resources : disk[r] \in InitialDocs(r)
    /\ blockConfig = [r \in Resources |-> [loaded |-> FALSE, schema |-> EmptyObject]]
    /\ memPreview = [r \in Resources |-> UnsetPreview]
    /\ cfgReq = [i \in FetchSlots |-> FreeSlot]
    /\ writeReq = [i \in WriteSlots |-> FreeSlot]
    /\ rawRead = [r \in Resources |-> NoRead]
    /\ lastWrite = [r \in Resources |-> NoWrite]
    /\ cfgFile \in [Resources -> {"valid", "broken"}]
    /\ ProjectScanned

ServerIdle ==
    /\ server = "none"
    /\ disk = [r \in Resources |-> NoFile]
    /\ blockConfig = [r \in Resources |-> [loaded |-> FALSE, schema |-> EmptyObject]]
    /\ memPreview = [r \in Resources |-> UnsetPreview]
    /\ cfgReq = [i \in FetchSlots |-> FreeSlot]
    /\ writeReq = [i \in WriteSlots |-> FreeSlot]
    /\ rawRead = [r \in Resources |-> NoRead]
    /\ lastWrite = [r \in Resources |-> NoWrite]
    /\ cfgFile = [r \in Resources |-> "valid"]
    /\ ProjectScanned

InitMerge ==
    /\ \/ /\ pMode = "merge"
          /\ pSchema \in Schemas
          /\ pPreview \in Previews
          /\ pBaseline = EmptyObject
          /\ pWorking = EmptyObject
       \/ /\ pMode = "save"
          /\ pSchema = EmptyObject
          /\ pPreview = EmptyObject
          /\ pBaseline \in SaveObjects
          /\ pWorking \in SaveObjects
    /\ pResult = EmptyObject
    /\ pDone = FALSE
    /\ ServerIdle
    /\ ClientInit("none")

\* A call of mergeDefaultsWithPreview(schema, previewData).
CallMerge ==
    /\ pMode = "merge" /\ ~pDone
    /\ pResult' = mergeDefaultsWithPreview(pSchema, pPreview)
    /\ pDone' = TRUE
    /\ UNCHANGED <<pMode, pSchema, pPreview, pBaseline, pWorking, svars, wvars, cvars>>

\* A call of mergeForSave(configDataRef, previewData).
CallMergeForSave ==
    /\ pMode = "save" /\ ~pDone
    /\ pResult' = mergeForSave(pBaseline, pWorking)
    /\ pDone' = TRUE
    /\ UNCHANGED <<pMode, pSchema, pPreview, pBaseline, pWorking, svars, wvars, cvars>>

NextMerge == CallMerge \/ CallMergeForSave

SpecMerge == InitMerge /\ [][NextMerge]_vars

(***************************************************************************)
(* HTTP requests in flight.                                                *)
(***************************************************************************)
SentFetch(r) == [stage |-> "sent", name |-> r]

\* a handler suspended in loadBlockConfig; file is the content of
\* block.config.ts the load reads
LoadingFetch(r, file) == [stage |-> "loading", name |-> r, file |-> file]

\* A config response: ok is response.ok; an error response carries no
\* schema and no previewData.
ConfigAnswer(r, schema, data) ==
    [stage |-> "answered", name |-> r, ok |-> TRUE, status |-> 200, schema |-> schema,
     previewData |-> data]

\* the config handler without its catch: the rejection is left unanswered
ErrorAnswerUncaught(r) == [stage |-> "escaped", name |-> r]

\* res.status(500).json({ error })
ErrorAnswer(r) ==
    [stage |-> "answered", name |-> r, ok |-> FALSE, status |-> 500, schema |-> EmptyObject,
     previewData |-> EmptyObject]

\* res.status(404).json({ error: "Block not found" })
NotFoundAnswer(r) ==
    [stage |-> "answered", name |-> r, ok |-> FALSE, status |-> 404, schema |-> EmptyObject,
     previewData |-> EmptyObject]

\* The handler's promise rejected before it answered: nothing in dev.ts
\* answers the request.
EscapedFetch(r) == [stage |-> "escaped", name |-> r]

SentWrite(r, body) == [stage |-> "sent", name |-> r, body |-> body, aborted |-> FALSE]

\* the response to a write; nobody waits for the response to an aborted one
AnsweredWrite(w, ok) ==
    IF w.aborted
    THEN FreeSlot
    ELSE [stage |-> "answered", name |-> w.name, body |-> w.body, aborted |-> FALSE,
          ok |-> ok]

HasFreeSlot(reqs) == \E i \in DOMAIN reqs : reqs[i].stage = "free"

\* the lowest free slot
NextFreeSlot(reqs) ==
    CHOOSE i \in DOMAIN reqs :
        reqs[i].stage = "free" /\ \A j \in DOMAIN reqs : reqs[j].stage = "free" => i <= j

(***************************************************************************)
(* The dev server's handlers, src/commands/dev.ts.                         *)
(***************************************************************************)
\* dev.ts:249-272: re-read preview.json, merge the defaults of the loaded
\* schema (cfg?.schema || {}) into it, answer; resource.previewData keeps
\* what was read.
DevAnswerConfig(i, r, cfg) ==
    LET data == LoadPreviewFresh(memPreview[r], disk[r])
        schema == IF cfg.loaded THEN cfg.schema ELSE EmptyObject
    IN IF ReadThrows(disk[r])
       THEN /\ cfgReq' = [cfgReq EXCEPT ![i] = EscapedFetch(r)]
            /\ UNCHANGED memPreview
       ELSE /\ memPreview' = [memPreview EXCEPT ![r] = [set |-> TRUE, data |-> data]]
            /\ cfgReq' = [cfgReq EXCEPT ![i] =
                             ConfigAnswer(r, schema, mergeDefaultsWithPreview(schema, data))]

\* resources.find((r) => r.name === name) finds an entry
InList(r) == \E k \in DOMAIN resources : resources[k] = r

\* the handler's test variant that resolves on every fetch
NeedsResolveAlways(cfg) == TRUE

\* dev.ts:216 if (!resource.blockConfig)
NeedsResolve(cfg) == ~cfg.loaded

\* GET /api/blocks/:name/config, dev.ts:206-216: up to the first await.  An
\* unknown name is answered 404; a resource whose configuration is loaded is
\* answered at once; otherwise the handler suspends in loadBlockConfig.
DevConfigBegin(i) ==
    /\ server = "dev"
    /\ cfgReq[i].stage = "sent"
    /\ LET r == cfgReq[i].name
       IN IF ~InList(r)
          THEN /\ cfgReq' = [cfgReq EXCEPT ![i] = NotFoundAnswer(r)]
               /\ UNCHANGED <<blockConfig, memPreview>>
          ELSE IF NeedsResolve(blockConfig[r])
          THEN /\ cfgReq' = [cfgReq EXCEPT ![i] = LoadingFetch(r, cfgFile[r])]
               /\ UNCHANGED <<blockConfig, memPreview>>
          ELSE /\ DevAnswerConfig(i, r, blockConfig[r])
               /\ UNCHANGED blockConfig
    /\ UNCHANGED <<server, disk, writeReq, rawRead, lastWrite, wvars, pvars, cvars>>

\* dev.ts:218-247 after loadBlockConfig settles.  A resolved configuration
\* is validated (errors are only printed), stored on the resource with its
\* metadata and upserted into the metadata cache; null leaves the resource
\* as it is; either way the request is then answered from
\* resource.blockConfig (dev.ts:249-280).  A load that threw is answered
\* with a 500 error object.
DevConfigLoaded(i) ==
    /\ server = "dev"
    /\ cfgReq[i].stage = "loading"
    /\ LET r == cfgReq[i].name
           result == loadBlockConfig(cfgReq[i].file)
           cfg == [loaded |-> TRUE, schema |-> ConfigFile(r)]
       IN CASE result = "config" ->
                 /\ blockConfig' = [blockConfig EXCEPT ![r] = cfg]
                 /\ meta' = [meta EXCEPT ![r] = cfgReq[i].file]
                 /\ metaCache' = updateBlockInCache(metaCache, r, cfgReq[i].file)
                 /\ DevAnswerConfig(i, r, cfg)
            [] result = "null" ->
                 /\ DevAnswerConfig(i, r, blockConfig[r])
                 /\ UNCHANGED <<blockConfig, meta, metaCache>>
            [] OTHER ->
                 /\ cfgReq' = [cfgReq EXCEPT ![i] = ErrorAnswer(r)]
                 /\ UNCHANGED <<blockConfig, memPreview, meta, metaCache>>
    /\ UNCHANGED <<server, disk, writeReq, rawRead, lastWrite, cfgFile, pkgFile, resources,
                   watch, bvars, pvars, cvars>>

\* GET /api/preview/:blockName, dev.ts:325-342: the raw document, re-read.
\* The handler is synchronous and reads outside any try: a document that does
\* not parse makes it throw into the framework.
DevPreviewGet(r) ==
    /\ server = "dev"
    /\ LET data == LoadPreviewFresh(memPreview[r], disk[r])
       IN IF ~InList(r)
          THEN /\ rawRead' = [rawRead EXCEPT ![r] = NotFoundRead]
               /\ UNCHANGED memPreview
          ELSE IF ReadThrows(disk[r])
          THEN /\ rawRead' = [rawRead EXCEPT ![r] = FailedRead]
               /\ UNCHANGED memPreview
          ELSE /\ memPreview' = [memPreview EXCEPT ![r] = [set |-> TRUE, data |-> data]]
               /\ rawRead' = [rawRead EXCEPT ![r] = RawRead(data)]
    /\ UNCHANGED <<server, disk, blockConfig, cfgReq, writeReq, lastWrite, wvars, pvars, cvars>>

\* POST /api/preview/:blockName, dev.ts:345-363: an unknown name is answered
\* 404; otherwise resource.previewData takes the body, then the file is written; a write that throws is answered
\* with a 500 error object and leaves the file as it was.
DevPreviewPost(i) ==
    /\ server = "dev"
    /\ writeReq[i].stage = "sent"
    /\ LET r == writeReq[i].name
           body == writeReq[i].body
       IN IF ~InList(r)
          THEN /\ writeReq' = [writeReq EXCEPT ![i] = AnsweredWrite(writeReq[i], FALSE)]
               /\ UNCHANGED <<memPreview, disk, lastWrite, rawRead>>
          ELSE /\ memPreview' = [memPreview EXCEPT ![r] = [set |-> TRUE, data |-> body]]
               /\ \E ok \in BOOLEAN :
                    /\ writeReq' = [writeReq EXCEPT ![i] = AnsweredWrite(writeReq[i], ok)]
                    /\ IF ok
                       THEN /\ disk' = [disk EXCEPT ![r] = WrittenDocument(disk[r], body)]
                            /\ lastWrite' = [lastWrite EXCEPT ![r] =
                                                [valid |-> TRUE, body |-> body]]
                            /\ rawRead' = [rawRead EXCEPT ![r] = NoRead]
                       ELSE UNCHANGED <<disk, lastWrite, rawRead>>
    /\ UNCHANGED <<server, blockConfig, cfgReq, wvars, pvars, cvars>>

(***************************************************************************)
(* The generated Next.js route handlers, src/utils/dev-generator.ts.       *)
(***************************************************************************)
\* app/api/blocks/[name]/config/route.ts GET, dev-generator.ts:742-803:
\* previewData is the parsed preview.json (or {}), the schema comes from
\* loadBlockConfig, which returns null when the evaluation fails
\* (dev-generator.ts:737-739); nothing is kept between requests.  A document
\* that does not parse makes the route throw: the framework answers 500.
NextConfigGet(i) ==
    /\ server = "next"
    /\ cfgReq[i].stage = "sent"
    /\ LET r == cfgReq[i].name
           loaded == loadBlockConfig(cfgFile[r]) = "config"
       IN cfgReq' = [cfgReq EXCEPT ![i] =
                        IF ReadThrows(disk[r])
                        THEN ErrorAnswer(r)
                        ELSE ConfigAnswer(r, IF loaded THEN ConfigFile(r) ELSE EmptyObject,
                                          ReadPreviewFile(disk[r]))]
    /\ UNCHANGED <<server, disk, blockConfig, memPreview, writeReq, rawRead, lastWrite,
                   wvars, pvars, cvars>>

\* app/api/preview/[blockName]/route.ts GET, dev-generator.ts:818-834.
NextPreviewGet(r) ==
    /\ server = "next"
    /\ rawRead' = [rawRead EXCEPT ![r] =
                      IF ReadThrows(disk[r]) THEN FailedRead
                      ELSE RawRead(ReadPreviewFile(disk[r]))]
    /\ UNCHANGED <<server, disk, blockConfig, memPreview, cfgReq, writeReq, lastWrite,
                   wvars, pvars, cvars>>

\* app/api/preview/[blockName]/route.ts POST, dev-generator.ts:836-852:
\* writeFileSync of the body; a throw becomes the framework's 500 response.
NextPreviewPost(i) ==
    /\ server = "next"
    /\ writeReq[i].stage = "sent"
    /\ LET r == writeReq[i].name
           body == writeReq[i].body
       IN \E ok \in BOOLEAN :
            /\ writeReq' = [writeReq EXCEPT ![i] = AnsweredWrite(writeReq[i], ok)]
            /\ IF ok
               THEN /\ disk' = [disk EXCEPT ![r] = WrittenDocument(disk[r], body)]
                    /\ lastWrite' = [lastWrite EXCEPT ![r] = [valid |-> TRUE, body |-> body]]
                    /\ rawRead' = [rawRead EXCEPT ![r] = NoRead]
               ELSE UNCHANGED <<disk, lastWrite, rawRead>>
    /\ UNCHANGED <<server, blockConfig, memPreview, cfgReq, wvars, pvars, cvars>>

(***************************************************************************)
(* SpecServer: the handlers driven by an HTTP client sending any requests. *)
(***************************************************************************)
\* no request is in flight: the client of SpecServer awaits each response
NoRequestInFlight ==
    /\ \A i \in FetchSlots : cfgReq[i].stage = "free"
    /\ \A i \in WriteSlots : writeReq[i].stage = "free"

\* Some client requests GET /api/blocks/<r>/config.
RequestConfig(r) ==
    /\ NoRequestInFlight
    /\ cfgReq' = [cfgReq EXCEPT ![NextFreeSlot(cfgReq)] = SentFetch(r)]
    /\ UNCHANGED <<server, disk, blockConfig, memPreview, writeReq, rawRead, lastWrite,
                   wvars, pvars, cvars>>

\* Some client POSTs a body to /api/preview/<r>.
RequestWrite(r, body) ==
    /\ NoRequestInFlight
    /\ writeReq' = [writeReq EXCEPT ![NextFreeSlot(writeReq)] = SentWrite(r, body)]
    /\ UNCHANGED <<server, disk, blockConfig, memPreview, cfgReq, rawRead, lastWrite,
                   wvars, pvars, cvars>>

\* The client has received a config response.
ConfigResponseTaken(i) ==
    /\ cfgReq[i].stage = "answered"
    /\ cfgReq' = [cfgReq EXCEPT ![i] = FreeSlot]
    /\ UNCHANGED <<server, disk, blockConfig, memPreview, writeReq, rawRead, lastWrite,
                   wvars, pvars, cvars>>

\* The client has received a write response.
WriteResponseTaken(i) ==
    /\ writeReq[i].stage = "answered"
    /\ writeReq' = [writeReq EXCEPT ![i] = FreeSlot]
    /\ UNCHANGED <<server, disk, blockConfig, memPreview, cfgReq, rawRead, lastWrite,
                   wvars, pvars, cvars>>

\* The client of a request that nothing answers gives up.
EscapedFetchDropped(i) ==
    /\ cfgReq[i].stage = "escaped"
    /\ cfgReq' = [cfgReq EXCEPT ![i] = FreeSlot]
    /\ UNCHANGED <<server, disk, blockConfig, memPreview, writeReq, rawRead, lastWrite,
                   wvars, pvars, cvars>>

InitServer == PureIdle /\ ServerInit /\ ClientInit("none")

NextServer ==
    \/ \E r \in Resources : RequestConfig(r)
    \/ \E r \in Resources, body \in PostBodies : RequestWrite(r, body)
    \/ \E i \in FetchSlots : DevConfigBegin(i)
    \/ \E i \in FetchSlots : DevConfigLoaded(i)
    \/ \E r \in Resources : DevPreviewGet(r)
    \/ \E i \in WriteSlots : DevPreviewPost(i)
    \/ \E i \in FetchSlots : NextConfigGet(i)
    \/ \E r \in Resources : NextPreviewGet(r)
    \/ \E i \in WriteSlots : NextPreviewPost(i)
    \/ \E i \in FetchSlots : ConfigResponseTaken(i)
    \/ \E i \in FetchSlots : EscapedFetchDropped(i)
    \/ \E i \in WriteSlots : WriteResponseTaken(i)

SpecServer == InitServer /\ [][NextServer]_vars

(***************************************************************************)
(* The editing clients.  A user event (a click, an edit) is one action: its *)
(* handler, the render it causes and the effects of that render, cleanups  *)
(* included.  A settled fetch is two: the callback, which queues state     *)
(* updates, and the render that follows with its effects; until that       *)
(* render the save effect of the previous render, and its timer, stay in   *)
(* place.  User events and config responses are taken up after a pending   *)
(* render.                                                                 *)
(***************************************************************************)
\* Values an edit may put into a field.
EditValues == {Str("e")}

ListEntry(b) == [name |-> b, hasSchema |-> FALSE, schema |-> EmptyObject]

WithSchema(b, schema) == [name |-> b, hasSchema |-> TRUE, schema |-> schema]

\* {...data, [key]: value} (cli.ts:486-489, dev-generator.ts:597)
SetField(data, key, value) ==
    [k \in (DOMAIN data) \cup {key} |-> IF k = key THEN value ELSE data[k]]

PendingSave(sel, data) == [pending |-> TRUE, name |-> sel.name, previewData |-> data]

\* controller.abort() of the save effect's cleanup (App.tsx:106-109): the
\* fetch rejects with AbortError; a response already on its way is dropped.
AbortWrite(reqs, w) ==
    IF w = 0 THEN reqs
    ELSE IF reqs[w].stage = "answered" THEN [reqs EXCEPT ![w] = FreeSlot]
    ELSE [reqs EXCEPT ![w].aborted = TRUE]

\* App.tsx:78-103, the debounced save effect: nothing is scheduled while
\* loading, not dirty, nothing selected, or configDataRef.current empty.
AppSaveEffect(loading, dirty, sel, ref, data) ==
    IF loading \/ ~dirty \/ sel.name = "none" \/ IsEmptyObject(ref)
    THEN NoTimer
    ELSE PendingSave(sel, data)

\* dev-generator.ts:312-324, the generated page's auto-save effect.
HomeSaveEffect(dirty, sel, ref, data) ==
    IF ~dirty \/ sel.name = "none" \/ IsEmptyObject(ref)
    THEN NoTimer
    ELSE PendingSave(sel, data)

\* handleSelectBlock, App.tsx:49-66, with the effects that follow: the
\* config hook starts a fetch when the name changed (cli.ts:304-340), the
\* config effect (App.tsx:24-46) re-applies the hook's current config to the
\* new selection, the save effect is cleaned up and finds isDirty false.
AppSelect(b) ==
    /\ client = "app"
    /\ ~renderPending
    /\ IF b # selected.name
       THEN /\ HasFreeSlot(cfgReq)
            /\ cfgReq' = [cfgReq EXCEPT ![NextFreeSlot(cfgReq)] = SentFetch(b)]
            /\ configLoading' = TRUE
            /\ IF config.set
               THEN /\ selected' = WithSchema(b, config.schema)
                    /\ configDataRef' = config.previewData
                    /\ refFrom' = config.name
                    /\ previewData' = config.previewData
               ELSE /\ selected' = ListEntry(b)
                    /\ configDataRef' = EmptyObject
                    /\ refFrom' = "none"
                    /\ previewData' = EmptyObject
       ELSE /\ selected' = ListEntry(b)
            /\ configDataRef' = EmptyObject
            /\ refFrom' = "none"
            /\ previewData' = EmptyObject
            /\ UNCHANGED <<cfgReq, configLoading>>
    /\ isDirty' = FALSE
    /\ timer' = NoTimer
    /\ writeReq' = AbortWrite(writeReq, curWrite)
    /\ curWrite' = 0
    /\ UNCHANGED <<client, config, renderPending, server, disk, blockConfig, memPreview,
                   rawRead, lastWrite, dvars, wvars, pvars>>

\* The config fetch settles with an ok response, cli.ts:316-335: setConfig
\* and setLoading(false).  In the render that follows, the save effect is
\* re-run only if configLoading changed (App.tsx:110), with the selection
\* and previewData of that render; the config effect (App.tsx:24-46) stores
\* the response's previewData in configDataRef.current and queues
\* setSelectedBlock and setPreviewData for the next render.
AppConfigLoaded(i) ==
    /\ client = "app"
    /\ ~renderPending
    /\ cfgReq[i].stage = "answered" /\ cfgReq[i].ok
    /\ cfgReq' = [cfgReq EXCEPT ![i] = FreeSlot]
    /\ config' = [set |-> TRUE, name |-> cfgReq[i].name, schema |-> cfgReq[i].schema,
                  previewData |-> cfgReq[i].previewData]
    /\ configLoading' = FALSE
    /\ configDataRef' = cfgReq[i].previewData
    /\ refFrom' = cfgReq[i].name
    /\ IF configLoading
       THEN /\ timer' = AppSaveEffect(FALSE, isDirty, selected, configDataRef', previewData)
            /\ writeReq' = AbortWrite(writeReq, curWrite)
            /\ curWrite' = 0
       ELSE UNCHANGED <<timer, writeReq, curWrite>>
    /\ selected' = WithSchema(selected.name, cfgReq[i].schema)
    /\ previewData' = cfgReq[i].previewData
    /\ renderPending' = TRUE
    /\ UNCHANGED <<client, isDirty, server, disk, blockConfig, memPreview, rawRead,
                   lastWrite, dvars, wvars, pvars>>

\* The render of queued state updates: a dependency of the save effect
\* changed, so its cleanup clears the timer and aborts the write of the
\* previous run (App.tsx:106-109) and the effect runs again (App.tsx:78-103).
AppRender ==
    /\ client = "app"
    /\ renderPending
    /\ timer' = AppSaveEffect(configLoading, isDirty, selected, configDataRef, previewData)
    /\ writeReq' = AbortWrite(writeReq, curWrite)
    /\ curWrite' = 0
    /\ renderPending' = FALSE
    /\ UNCHANGED <<client, selected, previewData, isDirty, configDataRef, refFrom, config,
                   configLoading, server, disk, blockConfig, memPreview, cfgReq, rawRead,
                   lastWrite, dvars, wvars, pvars>>

\* The config fetch settles with an error response, cli.ts:317, 332-336:
\* only loading changes; the save effect runs again when it did.
AppConfigFailed(i) ==
    /\ client = "app"
    /\ ~renderPending
    /\ cfgReq[i].stage = "answered" /\ ~cfgReq[i].ok
    /\ cfgReq' = [cfgReq EXCEPT ![i] = FreeSlot]
    /\ configLoading' = FALSE
    /\ IF configLoading
       THEN /\ timer' = AppSaveEffect(FALSE, isDirty, selected, configDataRef, previewData)
            /\ writeReq' = AbortWrite(writeReq, curWrite)
            /\ curWrite' = 0
       ELSE UNCHANGED <<timer, writeReq, curWrite>>
    /\ UNCHANGED <<client, selected, previewData, isDirty, configDataRef, refFrom, config,
                   renderPending, server, disk, blockConfig, memPreview, rawRead,
                   lastWrite, dvars, wvars, pvars>>

\* An edit in the schema editor (cli.ts:391-405, 486-489) reaching
\* handlePreviewDataChange (App.tsx:69-75); the save effect is cleaned up and
\* runs again.  The editor shows fields only when not loading and the
\* selection has a schema.
AppEdit(key, value) ==
    /\ client = "app"
    /\ ~renderPending
    /\ ~configLoading
    /\ selected.hasSchema /\ key \in DOMAIN selected.schema
    /\ previewData' = SetField(previewData, key, value)
    /\ isDirty' = TRUE
    /\ timer' = AppSaveEffect(configLoading, TRUE, selected, configDataRef, previewData')
    /\ writeReq' = AbortWrite(writeReq, curWrite)
    /\ curWrite' = 0
    /\ UNCHANGED <<client, selected, configDataRef, refFrom, config, configLoading, renderPending,
                   server, disk, blockConfig, memPreview, cfgReq, rawRead, lastWrite, dvars, wvars, pvars>>

\* The debounce timer fires, App.tsx:86-96: the body is configDataRef.current
\* as it is now, overlaid with the previewData the effect closed over.
AppTimerFires ==
    /\ client = "app"
    /\ timer.pending
    /\ HasFreeSlot(writeReq)
    /\ writeReq' = [writeReq EXCEPT ![NextFreeSlot(writeReq)] =
                       SentWrite(timer.name, mergeForSave(configDataRef, timer.previewData))]
    /\ curWrite' = NextFreeSlot(writeReq)
    /\ timer' = NoTimer
    /\ UNCHANGED <<client, selected, previewData, isDirty, configDataRef, refFrom, config,
                   configLoading, renderPending, server, disk, blockConfig, memPreview,
                   cfgReq, rawRead, lastWrite, dvars, wvars, pvars>>

\* The write's fetch resolves (with any HTTP status), App.tsx:91-97:
\* setIsDirty(false), rendered later if it changes isDirty.
AppWriteSettled(i) ==
    /\ client = "app"
    /\ writeReq[i].stage = "answered" /\ ~writeReq[i].aborted
    /\ writeReq' = [writeReq EXCEPT ![i] = FreeSlot]
    /\ curWrite' = IF curWrite = i THEN 0 ELSE curWrite
    /\ isDirty' = FALSE
    /\ renderPending' = (renderPending \/ isDirty)
    /\ UNCHANGED <<client, selected, previewData, configDataRef, refFrom, config, configLoading,
                   timer, server, disk, blockConfig, memPreview, cfgReq, rawRead,
                   lastWrite, dvars, wvars, pvars>>

\* An aborted write leaves the network before its request reaches the
\* server (the fetch has already rejected with AbortError, App.tsx:98-102).
AbortedWriteGone(i) ==
    /\ writeReq[i].stage = "sent" /\ writeReq[i].aborted
    /\ writeReq' = [writeReq EXCEPT ![i] = FreeSlot]
    /\ UNCHANGED <<cvars, server, disk, blockConfig, memPreview, cfgReq, rawRead,
                   lastWrite, wvars, pvars>>

\* handleSelect, dev-generator.ts:289-299, with the effects that follow: the
\* config effect (dev-generator.ts:271-286) starts a fetch when the name
\* changed; the save effect finds isDirty false.
HomeSelect(b) ==
    /\ client = "home"
    /\ ~renderPending
    /\ IF b # selected.name
       THEN /\ HasFreeSlot(cfgReq)
            /\ cfgReq' = [cfgReq EXCEPT ![NextFreeSlot(cfgReq)] = SentFetch(b)]
            /\ configLoading' = TRUE
       ELSE UNCHANGED <<cfgReq, configLoading>>
    /\ selected' = ListEntry(b)
    /\ previewData' = EmptyObject
    /\ configDataRef' = EmptyObject
    /\ refFrom' = "none"
    /\ isDirty' = FALSE
    /\ timer' = NoTimer
    /\ UNCHANGED <<client, config, curWrite, renderPending, server, disk, blockConfig,
                   memPreview, writeReq, rawRead, lastWrite, dvars, wvars, pvars>>

\* The config fetch settles, dev-generator.ts:275-284: the callback stores
\* the response's previewData in configDataRef.current and queues the
\* schema on the selection, previewData and configLoading for the render.
HomeConfigLoaded(i) ==
    /\ client = "home"
    /\ ~renderPending
    /\ cfgReq[i].stage = "answered" /\ cfgReq[i].ok
    /\ cfgReq' = [cfgReq EXCEPT ![i] = FreeSlot]
    /\ selected' = WithSchema(selected.name, cfgReq[i].schema)
    /\ configDataRef' = cfgReq[i].previewData
    /\ refFrom' = cfgReq[i].name
    /\ previewData' = cfgReq[i].previewData
    /\ configLoading' = FALSE
    /\ renderPending' = TRUE
    /\ UNCHANGED <<client, isDirty, config, timer, curWrite, server, disk, blockConfig,
                   memPreview, writeReq, rawRead, lastWrite, dvars, wvars, pvars>>

\* The render of queued state updates: the save effect's cleanup clears the
\* timer (dev-generator.ts:323) and the effect runs again (312-322).
HomeRender ==
    /\ client = "home"
    /\ renderPending
    /\ timer' = HomeSaveEffect(isDirty, selected, configDataRef, previewData)
    /\ renderPending' = FALSE
    /\ UNCHANGED <<client, selected, previewData, isDirty, configDataRef, refFrom, config,
                   configLoading, curWrite, server, disk, blockConfig, memPreview, cfgReq,
                   writeReq, rawRead, lastWrite, dvars, wvars, pvars>>

\* An edit of a field, dev-generator.ts:588-599: setPreviewData({...previewData,
\* [key]: val}) and setIsDirty(true); the save effect runs again.
HomeEdit(key, value) ==
    /\ client = "home"
    /\ ~renderPending
    /\ selected.name # "none" /\ ~configLoading
    /\ selected.hasSchema /\ key \in DOMAIN selected.schema
    /\ previewData' = SetField(previewData, key, value)
    /\ isDirty' = TRUE
    /\ timer' = HomeSaveEffect(TRUE, selected, configDataRef, previewData')
    /\ UNCHANGED <<client, selected, configDataRef, refFrom, config, configLoading, curWrite,
                   renderPending, server, disk, blockConfig, memPreview, cfgReq, writeReq,
                   rawRead, lastWrite, dvars, wvars, pvars>>

\* The auto-save timer fires, dev-generator.ts:314-320.
HomeTimerFires ==
    /\ client = "home"
    /\ timer.pending
    /\ HasFreeSlot(writeReq)
    /\ writeReq' = [writeReq EXCEPT ![NextFreeSlot(writeReq)] =
                       SentWrite(timer.name, mergeForSave(configDataRef, timer.previewData))]
    /\ timer' = NoTimer
    /\ UNCHANGED <<client, selected, previewData, isDirty, configDataRef, refFrom, config,
                   configLoading, curWrite, renderPending, server, disk, blockConfig,
                   memPreview, cfgReq, rawRead, lastWrite, dvars, wvars, pvars>>

\* The write's fetch resolves, dev-generator.ts:316-321: setIsDirty(false),
\* rendered later if it changes isDirty.
HomeWriteSettled(i) ==
    /\ client = "home"
    /\ writeReq[i].stage = "answered"
    /\ writeReq' = [writeReq EXCEPT ![i] = FreeSlot]
    /\ isDirty' = FALSE
    /\ renderPending' = (renderPending \/ isDirty)
    /\ UNCHANGED <<client, selected, previewData, configDataRef, refFrom, config, configLoading,
                   timer, curWrite, server, disk, blockConfig, memPreview, cfgReq, rawRead,
                   lastWrite, dvars, wvars, pvars>>

(***************************************************************************)
(* Spec: an editing client with its server: App.tsx with the dev server,   *)
(* or the generated home page with the generated routes.                   *)
(***************************************************************************)
\* The project the editing session starts from: A has a preview.json with
\* the declared key and one the schema does not declare, B has none.
SessionDocs ==
    [r \in Resources |-> IF r = "A" THEN File([k \in {"k1", "x"} |-> Str("a")]) ELSE NoFile]

Init ==
    /\ PureIdle
    /\ ServerInit
    /\ disk = SessionDocs
    /\ \/ server = "dev" /\ ClientInit("app")
       \/ server = "next" /\ ClientInit("home")

Next ==
    \/ \E b \in Resources : AppSelect(b)
    \/ \E i \in FetchSlots : AppConfigLoaded(i)
    \/ \E i \in FetchSlots : AppConfigFailed(i)
    \/ \E k \in SchemaKeys, v \in EditValues : AppEdit(k, v)
    \/ AppRender
    \/ AppTimerFires
    \/ \E i \in WriteSlots : AppWriteSettled(i)
    \/ \E i \in WriteSlots : AbortedWriteGone(i)
    \/ \E b \in Resources : HomeSelect(b)
    \/ \E i \in FetchSlots : HomeConfigLoaded(i)
    \/ \E k \in SchemaKeys, v \in EditValues : HomeEdit(k, v)
    \/ HomeRender
    \/ HomeTimerFires
    \/ \E i \in WriteSlots : HomeWriteSettled(i)
    \/ \E i \in FetchSlots : DevConfigBegin(i)
    \/ \E i \in FetchSlots : DevConfigLoaded(i)
    \/ \E i \in WriteSlots : DevPreviewPost(i)
    \/ \E i \in FetchSlots : NextConfigGet(i)
    \/ \E i \in WriteSlots : NextPreviewPost(i)

Spec == Init /\ [][Next]_vars

(***************************************************************************)
(* SpecLegacy: the legacy dev UI (the script served by the dev server),    *)
(* whose state is the globals currentBlock, previewData and                *)
(* window.saveTimeout, with the dev server.                                *)
(***************************************************************************)
\* window.saveTimeout pending: the callback closes over nothing and reads
\* the globals when it runs
\* Requests of the legacy page the model lets be in flight at once.
MaxLegacyFetches == 1

MaxLegacyWrites == 1

InFlight(reqs) == Cardinality({i \in DOMAIN reqs : reqs[i].stage # "free"})

LegacyTimer == [pending |-> TRUE, name |-> "none", previewData |-> EmptyObject]

InitLegacy ==
    /\ PureIdle
    /\ ServerInit
    /\ server = "dev"
    /\ disk = SessionDocs
    /\ cfgFile = [r \in Resources |-> "valid"]
    /\ ClientInit("legacy")

\* selectBlock(blockName) up to its await: currentBlock is set and
\* GET /api/preview/<name> is sent; a pending save timer stays pending.
LegacySelect(b) ==
    /\ client = "legacy"
    /\ HasFreeSlot(cfgReq)
    /\ InFlight(cfgReq) < MaxLegacyFetches
    /\ selected' = ListEntry(b)
    /\ cfgReq' = [cfgReq EXCEPT ![NextFreeSlot(cfgReq)] = SentFetch(b)]
    /\ UNCHANGED <<client, previewData, isDirty, configDataRef, refFrom, config,
                   configLoading, timer, curWrite, renderPending, server, disk, blockConfig,
                   memPreview, writeReq, rawRead, lastWrite, dvars, wvars, pvars>>

\* GET /api/preview/:blockName, dev.ts:325-342, answering request i: the
\* raw document, or the framework's error page when it does not parse.
DevPreviewServed(i) ==
    /\ server = "dev"
    /\ cfgReq[i].stage = "sent"
    /\ LET r == cfgReq[i].name
           data == LoadPreviewFresh(memPreview[r], disk[r])
       IN IF ~InList(r)
          THEN /\ cfgReq' = [cfgReq EXCEPT ![i] = NotFoundAnswer(r)]
               /\ UNCHANGED memPreview
          ELSE IF ReadThrows(disk[r])
          THEN /\ cfgReq' = [cfgReq EXCEPT ![i] = ErrorAnswer(r)]
               /\ UNCHANGED memPreview
          ELSE /\ memPreview' = [memPreview EXCEPT ![r] = [set |-> TRUE, data |-> data]]
               /\ cfgReq' = [cfgReq EXCEPT ![i] = ConfigAnswer(r, EmptyObject, data)]
    /\ UNCHANGED <<server, disk, blockConfig, writeReq, rawRead, lastWrite, wvars, pvars, cvars>>

\* selectBlock after its await: previewData takes the response's JSON,
\* whatever its status, or {} when the body is not JSON (the framework's
\* error page); the editor form is rendered.
LegacyPreviewLoaded(i) ==
    /\ client = "legacy"
    /\ cfgReq[i].stage = "answered"
    /\ previewData' = IF cfgReq[i].status = 200 THEN cfgReq[i].previewData
                      ELSE IF cfgReq[i].status = 404
                      THEN [k \in {"error"} |-> Str("Block not found")]
                      ELSE EmptyObject
    /\ refFrom' = cfgReq[i].name
    /\ cfgReq' = [cfgReq EXCEPT ![i] = FreeSlot]
    /\ UNCHANGED <<client, selected, isDirty, configDataRef, config, configLoading, timer,
                   curWrite, renderPending, server, disk, blockConfig, memPreview, writeReq,
                   rawRead, lastWrite, dvars, wvars, pvars>>

\* handleFieldChange: the value is set in previewData and the save is
\* debounced on window.saveTimeout.  The form on screen is the one rendered
\* by the last completed selectBlock; a change event carries a value other
\* than the one the field holds.
LegacyEdit(key, value) ==
    /\ client = "legacy"
    /\ refFrom # "none"
    /\ key \in DOMAIN ConfigFile(refFrom)
    /\ key \in DOMAIN previewData => previewData[key] # value
    /\ previewData' = SetField(previewData, key, value)
    /\ timer' = LegacyTimer
    /\ UNCHANGED <<client, selected, isDirty, configDataRef, refFrom, config, configLoading,
                   curWrite, renderPending, server, disk, blockConfig, memPreview, cfgReq,
                   writeReq, rawRead, lastWrite, dvars, wvars, pvars>>

\* The timer fires and savePreviewData runs: previewData, as it is now, is
\* posted to /api/preview/<currentBlock.name>, as it is now.
LegacyTimerFires ==
    /\ client = "legacy"
    /\ timer.pending
    /\ HasFreeSlot(writeReq)
    /\ InFlight(writeReq) < MaxLegacyWrites
    /\ writeReq' = [writeReq EXCEPT ![NextFreeSlot(writeReq)] =
                       SentWrite(selected.name, previewData)]
    /\ timer' = NoTimer
    /\ UNCHANGED <<client, selected, previewData, isDirty, configDataRef, refFrom, config,
                   configLoading, curWrite, renderPending, server, disk, blockConfig,
                   memPreview, cfgReq, rawRead, lastWrite, dvars, wvars, pvars>>

\* The write's response arrives: only the status text changes.
LegacyWriteSettled(i) ==
    /\ client = "legacy"
    /\ writeReq[i].stage = "answered"
    /\ writeReq' = [writeReq EXCEPT ![i] = FreeSlot]
    /\ UNCHANGED <<cvars, server, disk, blockConfig, memPreview, cfgReq, rawRead,
                   lastWrite, wvars, pvars>>

NextLegacy ==
    \/ \E b \in Resources : LegacySelect(b)
    \/ \E i \in FetchSlots : DevPreviewServed(i)
    \/ \E i \in FetchSlots : LegacyPreviewLoaded(i)
    \/ \E k \in SchemaKeys, v \in EditValues : LegacyEdit(k, v)
    \/ LegacyTimerFires
    \/ \E i \in WriteSlots : DevPreviewPost(i)
    \/ \E i \in WriteSlots : LegacyWriteSettled(i)

SpecLegacy == InitLegacy /\ [][NextLegacy]_vars

(***************************************************************************)
(* SpecDebounce: the save timers of the three editing clients, by their    *)
(* ids: App.tsx and the generated home page schedule in their save effect  *)
(* and clear in its cleanup, the legacy dev UI keeps window.saveTimeout.   *)
(***************************************************************************)
\* Bound: timers a behaviour of SpecDebounce creates.
MaxTimerIds == 3

\* clearTimeout does nothing.
ClearTimeoutNothing(ts, h) == ts

\* clearTimeout(h): the timer h is no longer pending; an id that is not
\* pending (a fired timer, or no timer) clears nothing.
ClearTimeout(ts, h) == ts \ {h}

\* the selection of SpecDebounce: a block whose schema declares SchemaKeys
DebounceSelection ==
    WithSchema("A", [k \in SchemaKeys |-> Field("singleLine", FALSE, Null, FALSE, EmptyObject)])

\* whether the save effect of the client schedules a timer
SaveScheduled(c, loading, dirty, sel, ref, data) ==
    CASE c = "app" -> AppSaveEffect(loading, dirty, sel, ref, data).pending
      [] c = "home" -> HomeSaveEffect(dirty, sel, ref, data).pending
      [] OTHER -> TRUE

InitDebounce ==
    /\ PureIdle
    /\ ServerIdle
    /\ client \in {"app", "home", "legacy"}
    /\ selected = DebounceSelection
    /\ configDataRef \in {EmptyObject, [k \in {"k1"} |-> Str("a")]}
    /\ previewData = configDataRef
    /\ refFrom = IF IsEmptyObject(configDataRef) THEN "none" ELSE selected.name
    /\ isDirty = FALSE
    /\ config = NoConfig
    /\ configLoading = FALSE
    /\ timer = NoTimer
    /\ curWrite = 0
    /\ renderPending = FALSE
    /\ timers = {}
    /\ timerHandle = 0
    /\ nextTimerId = 1

\* An edit.  App.tsx:69-75 and dev-generator.ts:596-599 set previewData and
\* isDirty; the save effect's cleanup clears its timer (App.tsx:106-109,
\* where it also aborts the write; dev-generator.ts:323) and the effect
\* schedules a new one if its guard lets it (App.tsx:81-86,
\* dev-generator.ts:313-314).  The legacy UI clears window.saveTimeout and
\* sets a new timer whatever the state (part_004:743-744).
DebounceEdit(key, value) ==
    /\ nextTimerId <= MaxTimerIds
    /\ previewData' = SetField(previewData, key, value)
    /\ isDirty' = (client # "legacy")
    /\ curWrite' = IF client = "app" THEN 0 ELSE curWrite
    /\ IF SaveScheduled(client, configLoading, TRUE, selected, configDataRef, previewData')
       THEN /\ timers' = ClearTimeout(timers, timerHandle) \cup {nextTimerId}
            /\ timerHandle' = nextTimerId
            /\ nextTimerId' = nextTimerId + 1
       ELSE /\ timers' = ClearTimeout(timers, timerHandle)
            /\ timerHandle' = 0
            /\ UNCHANGED nextTimerId
    /\ UNCHANGED <<client, selected, configDataRef, refFrom, config, configLoading, timer,
                   renderPending, svars, wvars, pvars>>

\* A pending timer fires and its callback sends the write (App.tsx:86-96,
\* dev-generator.ts:314-320, part_004:744-766).
DebounceFire(t) ==
    /\ t \in timers
    /\ timers' = timers \ {t}
    /\ curWrite' = t
    /\ UNCHANGED <<client, selected, previewData, isDirty, configDataRef, refFrom, config,
                   configLoading, timer, renderPending, timerHandle, nextTimerId,
                   svars, wvars, pvars>>

\* The write settles.  App.tsx:97 and dev-generator.ts:321: setIsDirty(false),
\* then the save effect's cleanup and the effect, which schedules nothing;
\* part_004:768-773 touches neither the data nor the timer.
DebounceSaved ==
    /\ curWrite # 0
    /\ curWrite' = 0
    /\ IF client = "legacy"
       THEN UNCHANGED <<isDirty, timers, timerHandle>>
       ELSE /\ isDirty' = FALSE
            /\ timers' = IF isDirty THEN ClearTimeout(timers, timerHandle) ELSE timers
            /\ timerHandle' = IF isDirty THEN 0 ELSE timerHandle
    /\ UNCHANGED <<client, selected, previewData, configDataRef, refFrom, config, configLoading,
                   timer, renderPending, nextTimerId, svars, wvars, pvars>>

NextDebounce ==
    \/ \E k \in SchemaKeys, v \in EditValues : DebounceEdit(k, v)
    \/ \E t \in 1..MaxTimerIds : DebounceFire(t)
    \/ DebounceSaved

SpecDebounce == InitDebounce /\ [][NextDebounce]_vars

(***************************************************************************)
(* SpecWatch: the dev server from its startup on, with the file watcher of *)
(* setupConfigWatcher (dev.ts:697-789), while files of the project change  *)
(* and clients fetch configurations and previews.                          *)
(***************************************************************************)
WatchAwaiting(kind, r, file) ==
    [stage |-> "awaiting", kind |-> kind, name |-> r, file |-> file]

\* the resources whose block.config.ts the user edits during the session
EditedResources == {"A"}

\* metadata caches a project may start with
InitialCaches ==
    {NoCacheFile,
     CorruptCacheFile([NoBlocks EXCEPT !["A"] = "valid"]),
     saveMetaCache([NoBlocks EXCEPT !["B"] = "invalid"])}

\* the names of a scanned list's entries
RECURSIVE NamesOf(_)
NamesOf(list) == IF list = <<>> THEN <<>> ELSE <<list[1].name>> \o NamesOf(Tail(list))

InitWatch ==
    /\ PureIdle
    /\ server = "booting"
    /\ disk = SessionDocs
    /\ blockConfig = [r \in Resources |-> [loaded |-> FALSE, schema |-> EmptyObject]]
    /\ memPreview = [r \in Resources |-> UnsetPreview]
    /\ cfgReq = [i \in FetchSlots |-> FreeSlot]
    /\ writeReq = [i \in WriteSlots |-> FreeSlot]
    /\ rawRead = [r \in Resources |-> NoRead]
    /\ lastWrite = [r \in Resources |-> NoWrite]
    /\ cfgFile \in [Resources -> {"valid", "missing"}]
    /\ cfgFile["B"] = "valid"
    /\ pkgFile \in [Resources -> {"nodir", "valid"}]
    /\ pkgFile["A"] = "valid"
    /\ resources = <<>>
    /\ meta = [r \in Resources |-> "dir"]
    /\ metaCache \in InitialCaches
    /\ watch = [j \in WatchSlots |-> FreeSlot]
    /\ scanOptions = BootScanOptions
    /\ scanResult = NoScan
    /\ cacheCall = NoCall
    /\ cacheResult = NoCacheResult
    /\ cacheLog = <<>>
    /\ cachedTags = NoCachedTags
    /\ GenIdle
    /\ KindIdle
    /\ ClientInit("none")

\* devCommand's startup, dev.ts:93-125: the lenient scan without
\* configurations, then the cached metadata merged into the list, the cached
\* tags in a property of their own (dev.ts:121).
DevBoot ==
    /\ server = "booting"
    /\ LET scanned == scanResources(BootScanOptions, cfgFile, pkgFile, disk)
       IN /\ ~scanned.thrown
          /\ resources' = NamesOf(scanned.list)
          /\ meta' = BootMeta(metaCache)
          /\ cachedTags' = BootTags(metaCache)
    /\ server' = "dev"
    /\ UNCHANGED <<disk, blockConfig, memPreview, cfgReq, writeReq, rawRead, lastWrite,
                   cfgFile, pkgFile, metaCache, watch, fvars, gvars, kvars, pvars, cvars>>

\* A client requests GET /api/blocks/<r>/config, whatever else is in flight.
SendConfigFetch(r) ==
    /\ server = "dev"
    /\ HasFreeSlot(cfgReq)
    /\ cfgReq' = [cfgReq EXCEPT ![NextFreeSlot(cfgReq)] = SentFetch(r)]
    /\ UNCHANGED <<server, disk, blockConfig, memPreview, writeReq, rawRead, lastWrite,
                   wvars, pvars, cvars>>

\* The "change" listener up to its first await.  For block.config.ts
\* (dev.ts:703-711) a listed resource is re-resolved; for package.json
\* (dev.ts:760-768) a name not yet listed starts a scan; otherwise the
\* listener returns.
WatchBegin(kind, r, slots, file) ==
    IF (kind = "config" /\ InList(r)) \/ (kind = "package" /\ ~InList(r))
    THEN /\ HasFreeSlot(slots)
         /\ watch' = [slots EXCEPT ![NextFreeSlot(slots)] = WatchAwaiting(kind, r, file)]
    ELSE watch' = slots

\* a handler suspended in loadBlockConfig for r (dev.ts:218, dev.ts:711)
Resolving(slot, r) ==
    /\ slot.stage \in {"loading", "awaiting"}
    /\ slot.name = r
    /\ slot.file # "scan"

\* The user saves block.config.ts of an existing resource directory with new
\* content, and the watcher calls the "change" listener (dev.ts:702).  A
\* load still running reads the file at some moment of its own: each one
\* in flight either had read the old content or reads the new.
EditConfigFile(r, file) ==
    /\ server = "dev"
    /\ pkgFile[r] # "nodir"
    /\ cfgFile[r] # "missing" /\ file # "missing" /\ file # cfgFile[r]
    /\ cfgFile' = [cfgFile EXCEPT ![r] = file]
    /\ \E lateFetches \in SUBSET {i \in FetchSlots : Resolving(cfgReq[i], r)},
          lateWatches \in SUBSET {j \in WatchSlots : Resolving(watch[j], r)} :
         /\ cfgReq' = [i \in FetchSlots |->
                          IF i \in lateFetches THEN [cfgReq[i] EXCEPT !.file = file]
                          ELSE cfgReq[i]]
         /\ WatchBegin("config", r,
                       [j \in WatchSlots |->
                          IF j \in lateWatches THEN [watch[j] EXCEPT !.file = file]
                          ELSE watch[j]],
                       file)
    /\ UNCHANGED <<server, disk, blockConfig, memPreview, writeReq, rawRead, lastWrite,
                   pkgFile, resources, meta, metaCache, bvars, pvars, cvars>>

\* The user creates a resource directory with its package.json.  The watcher
\* listens to "change" only (dev.ts:702): creating files calls nothing.
CreateResource(r) ==
    /\ server = "dev"
    /\ pkgFile[r] = "nodir"
    /\ pkgFile' = [pkgFile EXCEPT ![r] = "valid"]
    /\ UNCHANGED <<svars, cfgFile, resources, meta, metaCache, watch, bvars,
                   pvars, cvars>>

\* package.json of a resource directory is written again, and the watcher
\* calls the "change" listener.
EditPackageJson(r) ==
    /\ server = "dev"
    /\ pkgFile[r] # "nodir"
    /\ WatchBegin("package", r, watch, "scan")
    /\ UNCHANGED <<svars, cfgFile, pkgFile, resources, meta, metaCache, bvars, pvars, cvars>>

\* dev.ts:711-755 after loadBlockConfig settles: a resolved configuration is
\* validated (errors are only printed) and stored on the resource with its
\* metadata; the types are regenerated and the metadata cache upserted,
\* unless generateTypes threw.  null changes nothing; every throw is caught
\* and printed.
WatchConfigLoaded(j) ==
    /\ watch[j].stage = "awaiting" /\ watch[j].kind = "config"
    /\ LET r == watch[j].name
           result == loadBlockConfig(watch[j].file)
       IN IF result = "config"
          THEN /\ blockConfig' = [blockConfig EXCEPT ![r] =
                                     [loaded |-> TRUE, schema |-> ConfigFile(r)]]
               /\ meta' = [meta EXCEPT ![r] = watch[j].file]
               /\ \E typesGenerated \in BOOLEAN :
                    metaCache' = IF typesGenerated
                                 THEN updateBlockInCache(metaCache, r, watch[j].file)
                                 ELSE metaCache
          ELSE UNCHANGED <<blockConfig, meta, metaCache>>
    /\ watch' = [watch EXCEPT ![j] = FreeSlot]
    /\ UNCHANGED <<server, disk, memPreview, cfgReq, writeReq, rawRead, lastWrite, cfgFile,
                   pkgFile, resources, bvars, pvars, cvars>>

\* dev.ts:768-783 after scanResources settles: the scanned entry of that
\* name, if the scan returned one, is pushed onto the list.  Handlers find
\* the first entry of a name, so a pushed entry's fields count only when the
\* name was not listed.
WatchPackageScanned(j) ==
    /\ watch[j].stage = "awaiting" /\ watch[j].kind = "package"
    /\ LET r == watch[j].name
           scanned == scanResources(WatcherScanOptions, cfgFile, pkgFile, disk)
           found == FindScanned(scanned.list, r)
       IN IF ~scanned.thrown /\ found # {}
          THEN LET entry == CHOOSE x \in found : TRUE
               IN /\ resources' = Append(resources, r)
                  /\ IF InList(r)
                     THEN UNCHANGED <<blockConfig, meta, memPreview>>
                     ELSE /\ blockConfig' = [blockConfig EXCEPT ![r] =
                                [loaded |-> entry.loaded,
                                 schema |-> IF entry.loaded THEN ConfigFile(r)
                                            ELSE EmptyObject]]
                          /\ meta' = [meta EXCEPT ![r] = entry.meta]
                          /\ memPreview' = [memPreview EXCEPT ![r] = entry.preview]
          ELSE UNCHANGED <<resources, blockConfig, meta, memPreview>>
    /\ watch' = [watch EXCEPT ![j] = FreeSlot]
    /\ UNCHANGED <<server, disk, cfgReq, writeReq, rawRead, lastWrite, cfgFile, pkgFile,
                   metaCache, bvars, pvars, cvars>>

NextWatch ==
    \/ DevBoot
    \/ \E r \in Resources : SendConfigFetch(r)
    \/ \E i \in FetchSlots : DevConfigBegin(i)
    \/ \E i \in FetchSlots : DevConfigLoaded(i)
    \/ \E i \in FetchSlots : ConfigResponseTaken(i)
    \/ \E r \in EditedResources, file \in ConfigStates : EditConfigFile(r, file)
    \/ \E r \in Resources : CreateResource(r)
    \/ \E r \in Resources : EditPackageJson(r)
    \/ \E j \in WatchSlots : WatchConfigLoaded(j)
    \/ \E j \in WatchSlots : WatchPackageScanned(j)

SpecWatch == InitWatch /\ [][NextWatch]_vars

(***************************************************************************)
(* SpecCache: one call of a function of blocks-meta-cache.ts, or of the    *)
(* startup's cache merge, over any cache file.                             *)
(***************************************************************************)
AllBlocks == [Resources -> {"absent", "valid", "invalid"}]

CacheFiles ==
    {NoCacheFile} \cup {CorruptCacheFile(b) : b \in AllBlocks}
                  \cup {saveMetaCache(b) : b \in AllBlocks}

CacheCalls ==
    {[op |-> o, name |-> "none", meta |-> "absent"] : o \in {"load", "boot"}}
    \cup {[op |-> "update", name |-> r, meta |-> m] :
              r \in Resources, m \in {"valid", "invalid"}}
    \cup {[op |-> "remove", name |-> r, meta |-> "absent"] : r \in Resources}

\* the file a call leaves
FileAfter(call, file) ==
    CASE call.op = "update" -> updateBlockInCache(file, call.name, call.meta)
      [] call.op = "remove" -> removeBlockFromCache(file, call.name)
      [] OTHER -> file

InitCache ==
    /\ pMode = "cache"
    /\ pSchema = EmptyObject
    /\ pPreview = EmptyObject
    /\ pBaseline = EmptyObject
    /\ pWorking = EmptyObject
    /\ pResult = EmptyObject
    /\ pDone = FALSE
    /\ server = "none"
    /\ disk = [r \in Resources |-> NoFile]
    /\ blockConfig = [r \in Resources |-> [loaded |-> FALSE, schema |-> EmptyObject]]
    /\ memPreview = [r \in Resources |-> UnsetPreview]
    /\ cfgReq = [i \in FetchSlots |-> FreeSlot]
    /\ writeReq = [i \in WriteSlots |-> FreeSlot]
    /\ rawRead = [r \in Resources |-> NoRead]
    /\ lastWrite = [r \in Resources |-> NoWrite]
    /\ cfgFile = [r \in Resources |-> "valid"]
    /\ pkgFile = [r \in Resources |-> "valid"]
    /\ resources = DirNames
    /\ meta = [r \in Resources |-> "dir"]
    /\ metaCache \in CacheFiles
    /\ watch = [j \in WatchSlots |-> FreeSlot]
    /\ scanOptions = BootScanOptions
    /\ scanResult = NoScan
    /\ cacheCall \in CacheCalls
    /\ cacheResult = NoCacheResult
    /\ cacheLog = <<>>
    /\ cachedTags = NoCachedTags
    /\ GenIdle
    /\ KindIdle
    /\ ClientInit("none")

\* The call: loadMetaCache(), the startup's merge (dev.ts:109-121),
\* updateBlockInCache(name, ...) or removeBlockFromCache(name).
CallCache ==
    /\ pMode = "cache" /\ ~pDone
    /\ cacheResult' = [done |-> TRUE,
                       blocks |-> loadMetaCache(metaCache),
                       file |-> FileAfter(cacheCall, metaCache),
                       meta |-> IF cacheCall.op = "boot" THEN BootMeta(metaCache) ELSE meta]
    /\ pDone' = TRUE
    /\ UNCHANGED <<pMode, pSchema, pPreview, pBaseline, pWorking, pResult, svars, cfgFile,
                   pkgFile, resources, meta, metaCache, watch, scanOptions, scanResult,
                   cacheCall, cacheLog, cachedTags, gvars, kvars, cvars>>

NextCache == CallCache

SpecCache == InitCache /\ [][NextCache]_vars

(***************************************************************************)
(* SpecCacheLog: any sequence of updateBlockInCache and removeBlockFromCache *)
(* calls over any cache file.                                              *)
(***************************************************************************)
\* Bound: calls in one sequence.
MaxCalls == 3

InitCacheLog ==
    /\ PureIdle
    /\ server = "none"
    /\ disk = [r \in Resources |-> NoFile]
    /\ blockConfig = [r \in Resources |-> [loaded |-> FALSE, schema |-> EmptyObject]]
    /\ memPreview = [r \in Resources |-> UnsetPreview]
    /\ cfgReq = [i \in FetchSlots |-> FreeSlot]
    /\ writeReq = [i \in WriteSlots |-> FreeSlot]
    /\ rawRead = [r \in Resources |-> NoRead]
    /\ lastWrite = [r \in Resources |-> NoWrite]
    /\ cfgFile = [r \in Resources |-> "valid"]
    /\ pkgFile = [r \in Resources |-> "valid"]
    /\ resources = DirNames
    /\ meta = [r \in Resources |-> "dir"]
    /\ metaCache \in CacheFiles
    /\ watch = [j \in WatchSlots |-> FreeSlot]
    /\ scanOptions = BootScanOptions
    /\ scanResult = NoScan
    /\ cacheCall = NoCall
    /\ cacheResult = NoCacheResult
    /\ cacheLog = <<>>
    /\ cachedTags = NoCachedTags
    /\ GenIdle
    /\ KindIdle
    /\ ClientInit("none")

\* A call of updateBlockInCache(name, ...) or removeBlockFromCache(name):
\* the file is replaced by the one the call saves.
CallCacheWrite(call) ==
    /\ Len(cacheLog) < MaxCalls
    /\ call.op \in {"update", "remove"}
    /\ metaCache' = FileAfter(call, metaCache)
    /\ cacheLog' = Append(cacheLog, call)
    /\ UNCHANGED <<pvars, svars, cfgFile, pkgFile, resources, meta, watch, scanOptions,
                   scanResult, cacheCall, cacheResult, cachedTags, gvars, kvars, cvars>>

NextCacheLog == \E call \in CacheCalls : CallCacheWrite(call)

SpecCacheLog == InitCacheLog /\ [][NextCacheLog]_vars

(***************************************************************************)
(* SpecListing: the dev server started over any metadata cache, resolving  *)
(* configurations on request, and what GET /api/blocks reports.            *)
(***************************************************************************)
InitListing ==
    /\ PureIdle
    /\ server = "booting"
    /\ disk = SessionDocs
    /\ blockConfig = [r \in Resources |-> [loaded |-> FALSE, schema |-> EmptyObject]]
    /\ memPreview = [r \in Resources |-> UnsetPreview]
    /\ cfgReq = [i \in FetchSlots |-> FreeSlot]
    /\ writeReq = [i \in WriteSlots |-> FreeSlot]
    /\ rawRead = [r \in Resources |-> NoRead]
    /\ lastWrite = [r \in Resources |-> NoWrite]
    /\ cfgFile \in [Resources -> {"valid", "invalid"}]
    /\ pkgFile = [r \in Resources |-> "valid"]
    /\ resources = <<>>
    /\ meta = [r \in Resources |-> "dir"]
    /\ metaCache \in CacheFiles
    /\ watch = [j \in WatchSlots |-> FreeSlot]
    /\ scanOptions = BootScanOptions
    /\ scanResult = NoScan
    /\ cacheCall = NoCall
    /\ cacheResult = NoCacheResult
    /\ cacheLog = <<>>
    /\ cachedTags = NoCachedTags
    /\ GenIdle
    /\ KindIdle
    /\ ClientInit("none")

\* GET /api/blocks, dev.ts:190-203: the entry reported for r, each field by
\* the origin of its value.  The handler reads the list and changes nothing.
\* resource.blockConfig, when set, is the configuration meta[r] came from
\* (dev.ts:228-231, 727-730).
BlockListEntry(r) ==
    [displayName |-> meta[r],
     category |-> meta[r],
     tags |-> IF blockConfig[r].loaded /\ ConfigTags(meta[r]) # "none"
              THEN ConfigTags(meta[r])
              ELSE cachedTags[r],
     hasConfig |-> blockConfig[r].loaded]

NextListing ==
    \/ DevBoot
    \/ \E r \in Resources : SendConfigFetch(r)
    \/ \E i \in FetchSlots : DevConfigBegin(i)
    \/ \E i \in FetchSlots : DevConfigLoaded(i)
    \/ \E i \in FetchSlots : ConfigResponseTaken(i)

SpecListing == InitListing /\ [][NextListing]_vars

(***************************************************************************)
(* SpecGen: generateDevApp and regeneratePreviewPages called with any      *)
(* resource list over any project, any number of times.                    *)
(***************************************************************************)
GenResources == [type : ResourceTypes, name : Resources]

\* resource lists: up to two distinct resources
GenLists ==
    {<<>>} \cup {<<a>> : a \in GenResources}
           \cup {l \in {<<a, b>> : a \in GenResources, b \in GenResources} : l[1] # l[2]}

\* page files an earlier run or a user may have left under app/preview
StalePages == {{}, {PageFile("B", "page")}, {PageFile("A", "slug")}}

InitGen ==
    /\ PureIdle
    /\ server = "none"
    /\ disk = [r \in Resources |-> NoFile]
    /\ blockConfig = [r \in Resources |-> [loaded |-> FALSE, schema |-> EmptyObject]]
    /\ memPreview = [r \in Resources |-> UnsetPreview]
    /\ cfgReq = [i \in FetchSlots |-> FreeSlot]
    /\ writeReq = [i \in WriteSlots |-> FreeSlot]
    /\ rawRead = [r \in Resources |-> NoRead]
    /\ lastWrite = [r \in Resources |-> NoWrite]
    /\ cfgFile = [r \in Resources |-> "valid"]
    /\ pkgFile = [r \in Resources |-> "valid"]
    /\ resources = DirNames
    /\ meta = [r \in Resources |-> "dir"]
    /\ metaCache = NoCacheFile
    /\ watch = [j \in WatchSlots |-> FreeSlot]
    /\ scanOptions = BootScanOptions
    /\ scanResult = NoScan
    /\ cacheCall = NoCall
    /\ cacheResult = NoCacheResult
    /\ cacheLog = <<>>
    /\ cachedTags = NoCachedTags
    /\ ClientInit("none")
    /\ genFiles \in [blocks : [Resources -> BlockSources],
                     templates : [Resources -> TemplateSources]]
    /\ genFiles.blocks["B"] # "ts"
    /\ genFiles.templates["B"].pages # "config"
    /\ genList = <<>>
    /\ genCall = "none"
    /\ genPages \in StalePages
    /\ KindIdle

\* generateDevApp(projectRoot, list), dev-generator.ts:13-40: .cmssy/dev is
\* removed and rebuilt; the last step writes the preview pages.
CallGenerateDevApp(list) ==
    /\ genList' = list
    /\ genCall' = "generateDevApp"
    /\ genPages' = generatePreviewPages(genFiles, list)
    /\ UNCHANGED <<genFiles, pvars, svars, cfgFile, pkgFile, resources, meta, metaCache,
                   watch, fvars, cachedTags, kvars, cvars>>

\* regeneratePreviewPages(projectRoot, list), dev-generator.ts:45-58:
\* app/preview is removed, recreated and filled.
CallRegeneratePreviewPages(list) ==
    /\ genList' = list
    /\ genCall' = "regeneratePreviewPages"
    /\ genPages' = generatePreviewPages(genFiles, list)
    /\ UNCHANGED <<genFiles, pvars, svars, cfgFile, pkgFile, resources, meta, metaCache,
                   watch, fvars, cachedTags, kvars, cvars>>

NextGen ==
    \/ \E list \in GenLists : CallGenerateDevApp(list)
    \/ \E list \in GenLists : CallRegeneratePreviewPages(list)

SpecGen == InitGen /\ [][NextGen]_vars

(***************************************************************************)
(* SpecKinds: the dev server over a project where a block and a template   *)
(* may share a directory name; requests and watcher events carry the name  *)
(* of the resource the user addresses, whose kind the client knows.        *)
(***************************************************************************)
InitKinds ==
    /\ PureIdle
    /\ server = "dev"
    /\ disk = [r \in Resources |-> NoFile]
    /\ blockConfig = [r \in Resources |-> [loaded |-> FALSE, schema |-> EmptyObject]]
    /\ memPreview = [r \in Resources |-> UnsetPreview]
    /\ cfgReq = [i \in FetchSlots |-> FreeSlot]
    /\ writeReq = [i \in WriteSlots |-> FreeSlot]
    /\ rawRead = [r \in Resources |-> NoRead]
    /\ lastWrite = [r \in Resources |-> NoWrite]
    /\ cfgFile = [r \in Resources |-> "valid"]
    /\ pkgFile = [r \in Resources |-> "valid"]
    /\ resources = DirNames
    /\ meta = [r \in Resources |-> "dir"]
    /\ metaCache = NoCacheFile
    /\ watch = [j \in WatchSlots |-> FreeSlot]
    /\ scanOptions = BootScanOptions
    /\ scanResult = NoScan
    /\ cacheCall = NoCall
    /\ cacheResult = NoCacheResult
    /\ cacheLog = <<>>
    /\ cachedTags = NoCachedTags
    /\ GenIdle
    /\ ClientInit("none")
    /\ kDirs \in [ResourceTypes \X KindNames -> BOOLEAN]
    /\ kDirs[<<"block", "X">>]
    /\ kDocs \in [ResourceTypes \X KindNames -> {"none", "block", "template"}]
    /\ \A p \in ResourceTypes \X KindNames : kDocs[p] \in {"none", p[1]} /\ (~kDirs[p] => kDocs[p] = "none")
    /\ kList = ScanKinds(kDirs, kDocs, FALSE)

\* The user creates a resource directory with its package.json, with or
\* without a preview.json.  The watcher listens to "change" only.
KindCreate(p) ==
    /\ ~kDirs[p]
    /\ kDirs' = [kDirs EXCEPT ![p] = TRUE]
    /\ \E doc \in {"none", p[1]} : kDocs' = [kDocs EXCEPT ![p] = doc]
    /\ UNCHANGED <<kList, pvars, svars, cfgFile, pkgFile, resources, meta, metaCache,
                   watch, fvars, cachedTags, gvars, cvars>>

\* GET /api/preview/<name>, dev.ts:325-342, for a listed resource of kind
\* p[1]: preview.json of the found entry's directory is read into the found
\* entry.
KindPreviewGet(p) ==
    /\ ListedAs(kList, p[1], p[2])
    /\ LET k == FindByName(kList, p[2])
           dir == <<kList[k].type, kList[k].name>>
       IN kList' = [kList EXCEPT ![k].preview =
                       IF kDocs[dir] = "none" THEN "empty" ELSE kDocs[dir]]
    /\ UNCHANGED <<kDirs, kDocs, pvars, svars, cfgFile, pkgFile, resources, meta, metaCache,
                   watch, fvars, cachedTags, gvars, cvars>>

\* POST /api/preview/<name>, dev.ts:345-363, for a listed resource of kind
\* p[1]: the body goes to the found entry and to its directory's file.
KindPreviewPost(p) ==
    /\ ListedAs(kList, p[1], p[2])
    /\ LET k == FindByName(kList, p[2])
           dir == <<kList[k].type, kList[k].name>>
       IN /\ kList' = [kList EXCEPT ![k].preview = "posted"]
          /\ kDocs' = [kDocs EXCEPT ![dir] = "posted"]
    /\ UNCHANGED <<kDirs, pvars, svars, cfgFile, pkgFile, resources, meta, metaCache,
                   watch, fvars, cachedTags, gvars, cvars>>

\* block.config.ts of the directory p changes, dev.ts:702-744: the found
\* entry's configuration is resolved from the found entry's own path.
KindConfigChanged(p) ==
    /\ kDirs[p]
    /\ LET k == FindByName(kList, p[2])
       IN IF k # 0
          THEN kList' = [kList EXCEPT ![k].config = TRUE]
          ELSE UNCHANGED kList
    /\ UNCHANGED <<kDirs, kDocs, pvars, svars, cfgFile, pkgFile, resources, meta, metaCache,
                   watch, fvars, cachedTags, gvars, cvars>>

\* package.json of the directory p changes, dev.ts:759-787: when the list
\* has no entry of that name, the project is scanned and the first scanned
\* entry of that name is pushed.
KindPackageChanged(p) ==
    /\ kDirs[p]
    /\ LET scanned == ScanKinds(kDirs, kDocs, TRUE)
           k == FindByName(scanned, p[2])
       IN IF FindByName(kList, p[2]) = 0 /\ k # 0
          THEN kList' = Append(kList, scanned[k])
          ELSE UNCHANGED kList
    /\ UNCHANGED <<kDirs, kDocs, pvars, svars, cfgFile, pkgFile, resources, meta, metaCache,
                   watch, fvars, cachedTags, gvars, cvars>>

NextKinds ==
    \E p \in ResourceTypes \X KindNames :
        \/ KindCreate(p)
        \/ KindPreviewGet(p)
        \/ KindPreviewPost(p)
        \/ KindConfigChanged(p)
        \/ KindPackageChanged(p)

SpecKinds == InitKinds /\ [][NextKinds]_vars

(***************************************************************************)
(* SpecScan: one call of scanResources over any project and any options.   *)
(***************************************************************************)
\* the names option: not given, or naming one directory in another case or
\* in its own
ScanNames == {{}, {"a"}, {"B"}}

ScanOptionsSet ==
    [strict : BOOLEAN, loadConfig : BOOLEAN, validateSchema : BOOLEAN,
     loadPreview : BOOLEAN, requirePackageJson : BOOLEAN, names : ScanNames]

InitScan ==
    /\ pMode = "scan"
    /\ pSchema = EmptyObject
    /\ pPreview = EmptyObject
    /\ pBaseline = EmptyObject
    /\ pWorking = EmptyObject
    /\ pResult = EmptyObject
    /\ pDone = FALSE
    /\ server = "none"
    /\ disk \in [Resources -> {NoFile, File([k \in {"x"} |-> Str("a")]), CorruptFile}]
    /\ blockConfig = [r \in Resources |-> [loaded |-> FALSE, schema |-> EmptyObject]]
    /\ memPreview = [r \in Resources |-> UnsetPreview]
    /\ cfgReq = [i \in FetchSlots |-> FreeSlot]
    /\ writeReq = [i \in WriteSlots |-> FreeSlot]
    /\ rawRead = [r \in Resources |-> NoRead]
    /\ lastWrite = [r \in Resources |-> NoWrite]
    /\ cfgFile \in [Resources -> ConfigStates]
    /\ pkgFile \in [Resources -> PackageStates]
    /\ pkgFile["A"] # "nodir"
    /\ resources = <<>>
    /\ meta = [r \in Resources |-> "dir"]
    /\ metaCache = NoCacheFile
    /\ watch = [j \in WatchSlots |-> FreeSlot]
    /\ scanOptions \in ScanOptionsSet
    /\ scanResult = NoScan
    /\ cacheCall = NoCall
    /\ cacheResult = NoCacheResult
    /\ cacheLog = <<>>
    /\ cachedTags = NoCachedTags
    /\ GenIdle
    /\ KindIdle
    /\ ClientInit("none")

\* A call of scanResources(options), to its return or its throw.
CallScanResources ==
    /\ pMode = "scan" /\ ~pDone
    /\ scanResult' = scanResources(scanOptions, cfgFile, pkgFile, disk)
    /\ pDone' = TRUE
    /\ UNCHANGED <<pMode, pSchema, pPreview, pBaseline, pWorking, pResult, svars, cfgFile,
                   pkgFile, resources, meta, metaCache, watch, scanOptions, cacheCall, cacheResult,
                   cacheLog, cachedTags, gvars, kvars, cvars>>

NextScan == CallScanResources

SpecScan == InitScan /\ [][NextScan]_vars

(***************************************************************************)
(* Properties of the merge and of the save reconciliation (SpecMerge).     *)
(***************************************************************************)
MergeApplied == pMode = "merge" /\ pDone

SaveApplied == pMode = "save" /\ pDone

\* working holds no key the baseline lacks
SubsetEdit(baseline, working) == DOMAIN working \subseteq DOMAIN baseline

\* C2: for a non-empty baseline and a working state that is a subset-edit of
\* it, the reconciled document has exactly the baseline's keys, working's
\* value for each key working holds and the baseline's value for the others.
C2_ReconcileKeepsKeys ==
    (SaveApplied /\ ~IsEmptyObject(pBaseline) /\ SubsetEdit(pBaseline, pWorking))
    => /\ DOMAIN pResult = DOMAIN pBaseline
       /\ \A k \in DOMAIN pBaseline :
            pResult[k] = IF k \in DOMAIN pWorking THEN pWorking[k] ELSE pBaseline[k]

\* C2 witness: a two-key baseline reconciled with a one-key edit of another value.
C2_Witness ==
    /\ SaveApplied
    /\ DOMAIN pBaseline = {"k1", "k2"}
    /\ DOMAIN pWorking = {"k1"}
    /\ pWorking["k1"] # pBaseline["k1"]
    /\ pResult["k1"] = pWorking["k1"]

\* C3 as stated: the merged content has a value for every key the schema declares.
C3_Original ==
    MergeApplied => \A k \in DOMAIN pSchema : k \in DOMAIN pResult

\* C3 (amended): the merged content has a value for every declared key that
\* has a defaultValue, is a repeater, or is present in the preview content;
\* a declared key with none of the three is absent from the result.
C3_MergeCompleteness ==
    MergeApplied =>
      \A k \in DOMAIN pSchema :
        k \in DOMAIN pResult
          <=> (pSchema[k].hasDefault \/ pSchema[k].type = "repeater" \/ k \in DOMAIN pPreview)

\* C3 witness: empty preview content merged with a two-key schema, both filled.
C3_Witness ==
    /\ MergeApplied
    /\ IsEmptyObject(pPreview)
    /\ DOMAIN pSchema = {"k1", "k2"}
    /\ DOMAIN pResult = {"k1", "k2"}

\* C4 as stated: a key with a default that is present in the preview content
\* merges to the preview content's value.
C4_Original ==
    MergeApplied =>
      \A k \in (DOMAIN pSchema) \cap (DOMAIN pPreview) :
        pSchema[k].hasDefault => pResult[k] = pPreview[k]

\* the items of merged sequence r are the items of preview sequence p, each
\* keeping every nested entry it held
KeepsItems(r, p) ==
    /\ IsArray(r)
    /\ Len(r.items) = Len(p.items)
    /\ \A i \in 1..Len(p.items) :
         \A nk \in DOMAIN p.items[i] :
            nk \in DOMAIN r.items[i] /\ r.items[i][nk] = p.items[i][nk]

\* C4 (amended): a key with a default that the preview content holds with a
\* non-null value merges to the preview content's value; for a repeater with
\* a nested schema the preview's items are kept, each only gaining nested
\* defaults.  The default itself is never the result.
C4_PreviewPrecedence ==
    MergeApplied =>
      \A k \in (DOMAIN pSchema) \cap (DOMAIN pPreview) :
        (pSchema[k].hasDefault /\ pPreview[k] # Null) =>
           IF pSchema[k].type = "repeater" /\ pSchema[k].hasSchema /\ IsArray(pPreview[k])
           THEN KeepsItems(pResult[k], pPreview[k])
           ELSE pResult[k] = pPreview[k]

\* C4 witness: a key whose default differs from the string the preview holds.
C4_Witness ==
    /\ MergeApplied
    /\ "k1" \in DOMAIN pSchema /\ "k1" \in DOMAIN pPreview
    /\ pSchema["k1"].hasDefault
    /\ pPreview["k1"] = Str("a")
    /\ pSchema["k1"].defaultValue # pPreview["k1"]
    /\ pResult["k1"] = Str("a")

Missing(P, k) == k \notin DOMAIN P \/ P[k] = Null

\* C6 as stated: a declared key that is undefined or null in the preview
\* content merges to the defaultValue, else to the empty sequence for a
\* repeater, else stays absent.
C6_Original ==
    MergeApplied =>
      \A k \in DOMAIN pSchema :
        Missing(pPreview, k) =>
          IF pSchema[k].hasDefault
          THEN k \in DOMAIN pResult /\ pResult[k] = pSchema[k].defaultValue
          ELSE IF pSchema[k].type = "repeater"
          THEN k \in DOMAIN pResult /\ pResult[k] = Arr(<<>>)
          ELSE k \notin DOMAIN pResult

\* sequence r is default sequence d with nested defaults filled into each item
FilledFrom(r, d, nested) ==
    /\ IsArray(r)
    /\ Len(r.items) = Len(d.items)
    /\ \A i \in 1..Len(d.items) :
         /\ \A nk \in DOMAIN d.items[i] :
              nk \in DOMAIN r.items[i] /\ r.items[i][nk] = d.items[i][nk]
         /\ \A nk \in (DOMAIN r.items[i]) \ (DOMAIN d.items[i]) :
              /\ nk \in DOMAIN nested /\ nested[nk].hasDefault
              /\ r.items[i][nk] = nested[nk].defaultValue

\* C6 (amended): a declared key that is undefined or null in the preview
\* content merges to the defaultValue if there is one (each item of a
\* sequence default of a repeater with a nested schema also gaining nested
\* defaults), else to the empty sequence for a repeater, else to what the
\* preview content held: absent when absent, null when null.
C6_TopLevelDefault ==
    MergeApplied =>
      \A k \in DOMAIN pSchema :
        Missing(pPreview, k) =>
          IF pSchema[k].hasDefault
          THEN /\ k \in DOMAIN pResult
               /\ IF pSchema[k].type = "repeater" /\ pSchema[k].hasSchema
                     /\ IsArray(pSchema[k].defaultValue)
                  THEN FilledFrom(pResult[k], pSchema[k].defaultValue, pSchema[k].schema)
                  ELSE pResult[k] = pSchema[k].defaultValue
          ELSE IF pSchema[k].type = "repeater"
          THEN k \in DOMAIN pResult /\ pResult[k] = Arr(<<>>)
          ELSE IF k \in DOMAIN pPreview
          THEN k \in DOMAIN pResult /\ pResult[k] = Null
          ELSE k \notin DOMAIN pResult

\* C6 witness: a null preview value replaced by the default, next to a
\* repeater without default that became the empty sequence.
C6_Witness ==
    /\ MergeApplied
    /\ DOMAIN pSchema = {"k1", "k2"}
    /\ "k1" \in DOMAIN pPreview /\ pPreview["k1"] = Null
    /\ pSchema["k1"].hasDefault /\ pResult["k1"] = pSchema["k1"].defaultValue
    /\ pSchema["k2"].type = "repeater" /\ pResult["k2"] = Arr(<<>>)

\* the sequence the repeater merge maps over: the preview content's unless
\* it is undefined or null, then the default's, then the empty one
SourceSequence(k) ==
    IF ~Missing(pPreview, k) THEN pPreview[k]
    ELSE IF pSchema[k].hasDefault THEN pSchema[k].defaultValue
    ELSE Arr(<<>>)

\* C7: in every item of a sequence-valued repeater with a nested schema,
\* from preview content or from the default, a nested key with a default is
\* filled when the item lacks it and kept (null included) when it holds it.
C7_NestedFill ==
    MergeApplied =>
      \A k \in DOMAIN pSchema :
        (pSchema[k].type = "repeater" /\ pSchema[k].hasSchema /\ IsArray(SourceSequence(k))) =>
          LET src == SourceSequence(k).items
              res == pResult[k].items
          IN /\ Len(res) = Len(src)
             /\ \A i \in 1..Len(src) :
                  \A nk \in DOMAIN pSchema[k].schema :
                    pSchema[k].schema[nk].hasDefault =>
                      /\ nk \in DOMAIN res[i]
                      /\ res[i][nk] = IF nk \in DOMAIN src[i] THEN src[i][nk]
                                      ELSE pSchema[k].schema[nk].defaultValue

\* C7 witness: an item holding n1 as null and lacking n2, both with nested
\* defaults: null is kept and n2 is filled.
C7_Witness ==
    /\ MergeApplied
    /\ "k1" \in DOMAIN pSchema /\ "k1" \in DOMAIN pPreview
    /\ pSchema["k1"].type = "repeater" /\ pSchema["k1"].hasSchema
    /\ DOMAIN pSchema["k1"].schema = {"n1", "n2"}
    /\ pSchema["k1"].schema["n1"].hasDefault /\ pSchema["k1"].schema["n2"].hasDefault
    /\ IsArray(pPreview["k1"]) /\ Len(pPreview["k1"].items) = 1
    /\ DOMAIN pPreview["k1"].items[1] = {"n1"}
    /\ pPreview["k1"].items[1]["n1"] = Null
    /\ pResult["k1"].items[1]["n1"] = Null
    /\ pResult["k1"].items[1]["n2"] = Str("nd")

(***************************************************************************)
(* Properties of the request handlers (SpecServer).                        *)
(***************************************************************************)
\* request i is answered successfully by this step
AnsweredNow(i) ==
    /\ cfgReq[i].stage \in {"sent", "loading"}
    /\ cfgReq'[i].stage = "answered"
    /\ cfgReq'[i].ok

\* C8: once a preview write of R has succeeded, R's preview.json holds
\* exactly the request body, and a raw preview read of R made before any
\* further write returns exactly that body.
C8_WriteThenRead ==
    \A r \in Resources :
      lastWrite[r].valid =>
        /\ disk[r].exists /\ disk[r].data = lastWrite[r].body
        /\ rawRead[r].valid => rawRead[r].data = lastWrite[r].body

\* C8 witness: a body that lacks a key of the previous document and a key
\* the schema would default was written to A and then read back.
C8_Witness ==
    /\ lastWrite["A"].valid
    /\ DOMAIN lastWrite["A"].body = {"k2", "x"}
    /\ rawRead["A"].valid
    /\ rawRead["A"].data = lastWrite["A"].body

\* C9: the content of every successful config response and of every raw
\* preview read is that of preview.json at the moment the handler answers
\* (as it is, or with the schema defaults merged in), the empty object when
\* the file is missing.
C9_FreshFromDisk ==
    [][ /\ \A i \in FetchSlots :
             AnsweredNow(i) =>
               LET r == cfgReq[i].name
                   onDisk == IF disk[r].exists THEN disk[r].data ELSE EmptyObject
               IN cfgReq'[i].previewData \in
                    {onDisk, mergeDefaultsWithPreview(cfgReq'[i].schema, onDisk)}
        /\ \A r \in Resources :
             (rawRead'[r] # rawRead[r] /\ rawRead'[r].valid) =>
                rawRead'[r].data = IF disk[r].exists THEN disk[r].data ELSE EmptyObject
      ]_vars

\* C9 witness: a write to r failed, leaving resource.previewData different
\* from the file, and the raw read that followed returned the file's content.
C9_Witness ==
    \E r \in Resources, w \in WriteSlots :
      /\ server = "dev"
      /\ writeReq[w].stage = "answered" /\ ~writeReq[w].ok /\ writeReq[w].name = r
      /\ rawRead[r].valid
      /\ rawRead[r].data # writeReq[w].body
      /\ memPreview[r].set /\ memPreview[r].data = rawRead[r].data

\* C10 as stated: the previewData of every successful config response, from
\* the dev server's handler and from the generated route alike, is the merge
\* of the response's schema with the preview content on disk.
C10_ConfigReturnsMerged ==
    [][ \A i \in FetchSlots :
          AnsweredNow(i) =>
            cfgReq'[i].previewData =
               mergeDefaultsWithPreview(cfgReq'[i].schema, ReadPreviewFile(disk[cfgReq[i].name]))
      ]_vars

(***************************************************************************)
(* Properties of the editing clients (Spec).                               *)
(***************************************************************************)
\* a preview write request is issued by this step
WriteIssued ==
    \E i \in WriteSlots : writeReq[i].stage = "free" /\ writeReq'[i].stage = "sent"

\* C1: no preview write request is ever issued while the baseline snapshot
\* configDataRef.current is empty, in either client: a step that issues a
\* write starts and ends with a non-empty configDataRef.
C1_NoWriteOnEmptyBaseline ==
    [][WriteIssued => ~IsEmptyObject(configDataRef) /\ ~IsEmptyObject(configDataRef')]_vars

\* a click on a list entry, in either client
SelectStep == \E b \in Resources : AppSelect(b) \/ HomeSelect(b)

\* C11: an edit made over a non-empty baseline is saved unless a further
\* edit or a selection intervenes: the save scheduled for it stays scheduled
\* until it fires, issuing the write, or until a selection is made or the
\* baseline is emptied; no other step drops it.
C11_ScheduledSaveNotDropped ==
    [][ (timer.pending /\ ~timer'.pending)
          => (WriteIssued \/ SelectStep \/ IsEmptyObject(configDataRef')) ]_vars

\* writes of resource r sent and not settled, that the client has not aborted
WritesInFlight(r) ==
    {i \in WriteSlots : /\ writeReq[i].stage \in {"sent", "answered"}
                        /\ writeReq[i].name = r
                        /\ ~writeReq[i].aborted}

\* C13: at any time at most one preview write of a resource is in flight
\* that the client has not abandoned.
C13_OneWriteInFlight ==
    \A r \in Resources : Cardinality(WritesInFlight(r)) <= 1

(***************************************************************************)
(* Properties of the save timers (SpecDebounce).                           *)
(***************************************************************************)
\* an edit, in any of the three clients
EditStep == \E k \in SchemaKeys, v \in EditValues : DebounceEdit(k, v)

\* C12: an edit made while a save is pending cancels that save and
\* schedules a new one, and the client never has more than one save timer
\* pending.
C12_OneSaveTimer ==
    [][ /\ Cardinality(timers') <= 1
        /\ (EditStep /\ timers # {}) => (timers' # {} /\ timers' \cap timers = {}) ]_vars

\* C12 witness: the generated page's first timer has fired and its write is
\* in flight; the second timer neither fired nor was cleared by a settled
\* write, so an edit cancelled it while pending, scheduling the third.
C12_Witness == client = "home" /\ curWrite = 1 /\ timers = {3} /\ timerHandle = 3

\* the scan has returned or thrown
ScanApplied == pMode = "scan" /\ pDone

\* the directories the call scans
Scanned == {DirNames[k] : k \in {j \in DOMAIN DirNames :
               \E m \in DOMAIN ItemDirs(scanOptions.names, pkgFile) :
                   ItemDirs(scanOptions.names, pkgFile)[m] = DirNames[j]}}

\* the resource's configuration is missing, or its schema fails the
\* validation the call asks for
ConfigFails(r) ==
    \/ cfgFile[r] = "missing"
    \/ cfgFile[r] = "invalid" /\ scanOptions.validateSchema

\* C15: when a scan that loads configurations meets a resource whose
\* configuration is missing or whose schema fails validation, a strict scan
\* throws; a lenient scan that returns has that resource in its list and
\* has warned about it.
C15_StrictThrowsLenientWarns ==
    (ScanApplied /\ scanOptions.loadConfig) =>
        \A r \in Scanned :
            ConfigFails(r) =>
                IF scanOptions.strict
                THEN scanResult.thrown
                ELSE ~scanResult.thrown =>
                        /\ FindScanned(scanResult.list, r) # {}
                        /\ r \in scanResult.warned

\* config fetch i left the stage it was in
FetchLeft(i, stage) == cfgReq[i].stage = stage /\ cfgReq'[i].stage # stage

\* C14: a config fetch starts resolving only when its resource has no
\* configuration loaded; a resolution that yields a configuration sets the
\* resource's configuration and metadata and upserts its cache entry; a fetch
\* that finds the configuration loaded is answered from it without resolving
\* and leaves configuration, metadata and cache as they were.
C14_LazyResolveOnce ==
    [][ \A i \in FetchSlots :
          LET r == cfgReq[i].name
          IN /\ (FetchLeft(i, "sent") /\ cfgReq'[i].stage = "loading")
                    => ~blockConfig[r].loaded
             /\ (FetchLeft(i, "sent") /\ InList(r) /\ blockConfig[r].loaded)
                    => /\ cfgReq'[i].stage = "answered"
                       /\ cfgReq'[i].schema = blockConfig[r].schema
                       /\ UNCHANGED <<blockConfig, meta, metaCache>>
             /\ (FetchLeft(i, "loading") /\ loadBlockConfig(cfgReq[i].file) = "config")
                    => /\ blockConfig'[r] = [loaded |-> TRUE, schema |-> ConfigFile(r)]
                       /\ meta'[r] = cfgReq[i].file
                       /\ loadMetaCache(metaCache')[r] = cfgReq[i].file
                       /\ \A o \in Resources \ {r} :
                            loadMetaCache(metaCache')[o] = loadMetaCache(metaCache)[o] ]_vars

\* C14 witness: B's configuration was loaded by the watcher's scan, which
\* writes no cache entry; a fetch of B has been answered with B's schema and
\* the cache still has no entry for B, so the fetch did not resolve.
C14_Witness ==
    \E i \in FetchSlots :
        /\ cfgReq[i].stage = "answered" /\ cfgReq[i].name = "B"
        /\ cfgReq[i].status = 200 /\ cfgReq[i].schema = ConfigFile("B")
        /\ loadMetaCache(metaCache)["B"] = "absent"

\* watcher callback j, awaiting for a file of that kind, returned in this step
WatchReturned(j, kind) ==
    watch[j].stage = "awaiting" /\ watch[j].kind = kind /\ watch'[j].stage = "free"

\* C16: the callback for a changed block.config.ts of r, when it resolves a
\* configuration, stores it and its metadata on r's entry and upserts r's
\* cache entry (or leaves it when regenerating the types failed); whatever
\* it resolves, every other resource's entry and cache entry stay as they
\* were, and the list and the preview content in memory are not rescanned.
C16_ConfigChangeTouchesOneResource ==
    [][ \A j \in WatchSlots :
          WatchReturned(j, "config") =>
             LET r == watch[j].name
             IN /\ \A o \in Resources \ {r} :
                     /\ blockConfig'[o] = blockConfig[o]
                     /\ meta'[o] = meta[o]
                     /\ loadMetaCache(metaCache')[o] = loadMetaCache(metaCache)[o]
                /\ UNCHANGED <<resources, memPreview>>
                /\ loadBlockConfig(watch[j].file) = "config"
                     => /\ blockConfig'[r] = [loaded |-> TRUE, schema |-> ConfigFile(r)]
                        /\ meta'[r] = watch[j].file
                        /\ loadMetaCache(metaCache')[r]
                              \in {watch[j].file, loadMetaCache(metaCache)[r]}
                /\ loadBlockConfig(watch[j].file) # "config"
                     => UNCHANGED <<blockConfig, meta, metaCache>> ]_vars

\* C16 witness: A's configuration is loaded although no fetch of A was
\* ever answered, so the watcher loaded it; A's entry and cache entry hold
\* the edited file's metadata, B's hold what the startup cache gave them.
C16_Witness ==
    /\ blockConfig["A"].loaded /\ ~memPreview["A"].set
    /\ meta["A"] = "invalid" /\ loadMetaCache(metaCache)["A"] = "invalid"
    /\ meta["B"] = "invalid" /\ loadMetaCache(metaCache)["B"] = "invalid"
    /\ ~blockConfig["B"].loaded
    /\ \A j \in WatchSlots : watch[j].stage = "free"

\* the list entries named r
EntriesOf(r) == {k \in DOMAIN resources : resources[k] = r}

\* C17: the in-memory list never holds two entries for one resource name.
C17_OneEntryPerName == \A r \in Resources : Cardinality(EntriesOf(r)) <= 1

\* the list after the step still begins with the list before it
ListKept == /\ Len(resources') >= Len(resources)
            /\ \A k \in DOMAIN resources : resources'[k] = resources[k]

\* config fetch i was answered in this step
FetchAnswered(i) ==
    cfgReq[i].stage \in {"sent", "loading"} /\ cfgReq'[i].stage \notin {"sent", "loading"}

Unreadable(file) == file.state \in {"missing", "corrupt"}

\* C20: over a cache file that is missing or does not parse, loading yields
\* the cache with no entries, the startup leaves every list entry its
\* scanned metadata, an update leaves a cache holding the one updated entry
\* and a remove leaves a cache with no entries: what each does over an empty
\* cache.
C20_UnreadableCacheIsEmpty ==
    (pMode = "cache" /\ pDone /\ Unreadable(metaCache)) =>
        /\ cacheResult.blocks = NoBlocks
        /\ cacheCall.op = "boot" => cacheResult.meta = BootMeta(saveMetaCache(NoBlocks))
        /\ cacheResult.file = FileAfter(cacheCall, IF cacheCall.op \in {"update", "remove"}
                                                  THEN saveMetaCache(NoBlocks)
                                                  ELSE metaCache)
        /\ cacheCall.op = "update"
             => cacheResult.file = saveMetaCache([NoBlocks EXCEPT ![cacheCall.name] = cacheCall.meta])
        /\ cacheCall.op = "remove" => cacheResult.file = saveMetaCache(NoBlocks)

\* C20 witness: an update was called over a file that does not parse and
\* whose text spells entries; the file it left holds the updated entry alone.
C20_Witness ==
    /\ pMode = "cache" /\ pDone
    /\ metaCache.state = "corrupt" /\ metaCache.blocks["B"] = "valid"
    /\ cacheCall.op = "update" /\ cacheCall.name = "A"
    /\ cacheResult.file = saveMetaCache([NoBlocks EXCEPT !["A"] = cacheCall.meta])

\* C19: on the dev server no config fetch is left unanswered by its handler,
\* and no preview read is answered by the framework's error page in place of
\* a JSON object.
C19_EveryRequestAnsweredInJson ==
    server = "dev" =>
        /\ \A i \in FetchSlots : cfgReq[i].stage # "escaped"
        /\ \A r \in Resources : rawRead[r].answer # "error-page"

\* the calls of the log that name r
RECURSIVE LastCallOn(_, _)
LastCallOn(log, r) ==
    IF log = <<>> THEN NoCall
    ELSE IF log[Len(log)].name = r THEN log[Len(log)]
    ELSE LastCallOn(SubSeq(log, 1, Len(log) - 1), r)

\* C21: after any sequence of update and remove calls the cache document
\* holds, for each name the calls touched, the entry last written and not
\* since removed; and each call leaves every entry of another name exactly
\* as it was before the call.
C21_CacheHoldsLastWritten ==
    /\ [](\A r \in Resources :
            LastCallOn(cacheLog, r) # NoCall =>
               /\ metaCache.state = "valid"
               /\ metaCache.blocks[r] = LastCallOn(cacheLog, r).meta)
    /\ [][ \A r \in Resources :
            (cacheLog' # cacheLog /\ cacheLog'[Len(cacheLog')].name # r)
               => loadMetaCache(metaCache')[r] = loadMetaCache(metaCache)[r] ]_vars

\* C21 witness: A was written, then B, then A removed; the document holds
\* B's entry as written and none for A.
C21_Witness ==
    /\ cacheLog = <<[op |-> "update", name |-> "A", meta |-> "valid"],
                    [op |-> "update", name |-> "B", meta |-> "invalid"],
                    [op |-> "remove", name |-> "A", meta |-> "absent"]>>
    /\ metaCache = saveMetaCache([NoBlocks EXCEPT !["B"] = "invalid"])

\* what a server started without a metadata cache reports for a resource
\* whose loaded configuration is file
ReportedWithoutCache(file) ==
    [displayName |-> file, category |-> file, tags |-> ConfigTags(file), hasConfig |-> TRUE]

\* C22: once a resource's configuration has been loaded, the displayName,
\* category and tags the listing reports for it are those of the loaded
\* configuration, whatever the metadata cache file held when the server
\* started.
C22_ReportIndependentOfCache ==
    \A r \in Resources :
        (server = "dev" /\ blockConfig[r].loaded)
            => BlockListEntry(r) = ReportedWithoutCache(meta[r])

\* typeof v === 'string'
IsString(v) == v.t = "str"

\* the object the test suite's simulation of the merge puts in place of a
\* string under a media field (previewData.test.ts:45-47)
MediaObject(v) == [t |-> "media", url |-> v, alt |-> Str("")]

\* C23: a string value of a media-type field, from the preview content or
\* from the field's default, comes out of the dev server's merge as the
\* object {url: <the string>, alt: ''}.
C23_MediaStringConverted ==
    MergeApplied =>
      \A k \in DOMAIN pSchema :
        (pSchema[k].type = "media" /\ TopHas(pSchema[k], pPreview, k)
            /\ IsString(TopValue(pSchema[k], pPreview, k)))
          => pResult[k] = MediaObject(TopValue(pSchema[k], pPreview, k))

\* the resources of a list that have a src/index.tsx in their directory
WithIndexTsx(files, list) ==
    {list[i] : i \in {j \in 1..Len(list) :
        IF list[j].type = "template" THEN files.templates[list[j].name].src = "tsx"
        ELSE files.blocks[list[j].name] = "tsx"}}

\* C24: after generateDevApp or regeneratePreviewPages ran with list R, the
\* files under app/preview are app/preview/<name>/page.tsx for exactly the
\* resources of R, blocks and templates alike, that have a src/index.tsx.
C24_PagesForResourcesWithIndex ==
    genCall # "none"
       => genPages = {PageFile(res.name, "page") : res \in WithIndexTsx(genFiles, genList)}

\* C25: every preview write the React editing clients send to a resource
\* carries a baseline obtained from a config fetch of that resource: content
\* fetched for a different resource is never written to it.
C25_WriteCarriesOwnContent ==
    [][ \A i \in WriteSlots :
          (writeReq[i].stage = "free" /\ writeReq'[i].stage = "sent")
             => refFrom \in {"none", writeReq'[i].name} ]_vars

\* no config resolution for r is in flight, from a fetch or from the watcher
NoneResolving(r) ==
    /\ \A i \in FetchSlots : ~(cfgReq[i].stage = "loading" /\ cfgReq[i].name = r)
    /\ \A j \in WatchSlots : ~(watch[j].stage = "awaiting" /\ watch[j].name = r)

\* C26: once the configuration-file changes of a listed resource have been
\* handled and no resolution for it is in flight, the configuration in
\* memory is the one resolved from the latest file content, when that
\* content resolves: a lazy resolution started before a change never
\* overwrites the watcher's newer result.
C26_MemoryHoldsLatestConfig ==
    \A r \in Resources :
        (server = "dev" /\ blockConfig[r].loaded /\ NoneResolving(r)
            /\ loadBlockConfig(cfgFile[r]) = "config")
          => meta[r] = cfgFile[r]

\* C27: apart from a selection, which discards the edits, the client clears
\* its dirty flag only in a step that takes the successful answer to a write
\* carrying the current working state; an aborted, failed or refused write
\* leaves the state dirty.
C27_DirtyClearedOnlyOnSuccess ==
    [][ (isDirty /\ ~isDirty' /\ ~SelectStep)
          => \E i \in WriteSlots :
                /\ writeReq[i].stage = "answered" /\ writeReq'[i].stage = "free"
                /\ writeReq[i].ok
                /\ writeReq[i].body = mergeForSave(configDataRef, previewData) ]_vars

\* C28: merging is idempotent: merging the schema's defaults into content
\* that is already the result of that merge returns it unchanged.
C28_MergeIdempotent ==
    MergeApplied => mergeDefaultsWithPreview(pSchema, pResult) = pResult

\* C28 witness: a merge that filled a top-level default and a nested default
\* of an item, so the second merge meets content the first one changed.
C28_Witness ==
    /\ MergeApplied
    /\ pResult # pPreview
    /\ \E k \in DOMAIN pSchema :
          /\ pSchema[k].type = "repeater" /\ pSchema[k].hasSchema
          /\ k \in DOMAIN pPreview /\ IsArray(pPreview[k])
          /\ pResult[k] # pPreview[k]
    /\ \E k \in DOMAIN pSchema : k \notin DOMAIN pPreview /\ k \in DOMAIN pResult

\* the entries and the preview document of the other kind of that name
OtherKind(type) == IF type = "block" THEN "template" ELSE "block"

EntriesOfKind(list, type, name) ==
    {k \in DOMAIN list : list[k].type = type /\ list[k].name = name}

\* C29: a resource is identified by its kind together with its name: a
\* request or watcher event addressed to a resource of one kind leaves the
\* entry and the preview document of the other kind's resource of that name
\* as they were, and a package.json event of a resource not yet listed under
\* its kind and name appends it.
C29_KindAndNameIdentify ==
    [][ \A p \in ResourceTypes \X KindNames :
          /\ (KindPreviewGet(p) \/ KindPreviewPost(p) \/ KindConfigChanged(p))
                => /\ kDocs'[<<OtherKind(p[1]), p[2]>>] = kDocs[<<OtherKind(p[1]), p[2]>>]
                   /\ \A k \in EntriesOfKind(kList, OtherKind(p[1]), p[2]) :
                         kList'[k] = kList[k]
          /\ (KindPackageChanged(p) /\ EntriesOfKind(kList, p[1], p[2]) = {})
                => EntriesOfKind(kList', p[1], p[2]) # {} ]_vars

\* C30: in the legacy dev UI every preview write carries the content loaded
\* for, and edited under, the block it is posted to: a save scheduled by an
\* edit to one block is not posted to another block selected before the
\* timer fires.
C30_LegacySaveGoesToItsBlock ==
    [][ \A i \in WriteSlots :
          (client = "legacy" /\ writeReq[i].stage = "free" /\ writeReq'[i].stage = "sent")
             => writeReq'[i].name = refFrom ]_vars

====
